---- MODULE Spec2Model ----
(***************************************************************************)
(* A model of the loretex Markdown-to-LaTeX conversion engine:             *)
(* text helpers, the block parser, the transform registry and pipeline,    *)
(* the configuration model, the generator and the converter.               *)
(*                                                                         *)
(* Text is a sequence of one-character strings; a source is one such       *)
(* sequence with "\n" characters in it, a line is one without.  Rendered   *)
(* output is text of the same kind.                                        *)
(***************************************************************************)
EXTENDS Integers, Sequences, FiniteSets, TLC

VARIABLES
    parsed,      \* the last MarkdownParser.parse call: its source and result
    config,      \* the configuration at hand and the last call made on it
    _TRANSFORMS, \* registry.py: the process-wide map from name to transform
    registry,    \* the last call of a registry or pipeline function
    converters,  \* the MarkdownToLaTeXConverter objects constructed so far
    conversion,  \* the last convert_string call: its arguments and stages
    rendered,    \* the last call of a rendering method: arguments and outcome
    stack        \* the parser's call stack, one frame per call in progress

parserVars == <<parsed, stack>>
configVars == <<config>>
registryVars == <<_TRANSFORMS, registry>>
engineVars == <<converters, conversion>>
renderVars == <<rendered>>
vars == <<parsed, config, _TRANSFORMS, registry, converters, conversion,
          rendered, stack>>

-----------------------------------------------------------------------------
(* Bounds of the model *)

\* sources are joins of at most this many fragments of the fragment pool
MaxFragments == 2

-----------------------------------------------------------------------------
(* Python string primitives *)

NL == "\n"
None == <<"None">>

Digits == {"0", "1", "2", "3", "4", "5", "6", "7", "8", "9"}
Lower == {"a", "b", "c", "d", "e", "f", "g", "h", "i", "j", "k", "l", "m",
          "n", "o", "p", "q", "r", "s", "t", "u", "v", "w", "x", "y", "z"}
Upper == {"A", "B", "C", "D", "E", "F", "G", "H", "I", "J", "K", "L", "M",
          "N", "O", "P", "Q", "R", "S", "T", "U", "V", "W", "X", "Y", "Z"}
Letters == Lower \cup Upper
\* the regex class \s and the characters str.strip() removes
Whitespace == {" ", "\t", "\n", "\r", "\f"}
\* the regex class [ \t]
Blanks == {" ", "\t"}

Take(s, n) == SubSeq(s, 1, n)
Drop(s, n) == SubSeq(s, n + 1, Len(s))

StartsWith(s, p) == Len(p) <= Len(s) /\ Take(s, Len(p)) = p
EndsWith(s, p) == Len(p) <= Len(s) /\ Drop(s, Len(s) - Len(p)) = p

\* number of leading characters of s that lie in set cs
RECURSIVE CountLeading(_, _)
CountLeading(s, cs) ==
    IF s = << >> \/ Head(s) \notin cs THEN 0 ELSE 1 + CountLeading(Tail(s), cs)

RECURSIVE CountTrailing(_, _)
CountTrailing(s, cs) ==
    IF s = << >> \/ s[Len(s)] \notin cs THEN 0
    ELSE 1 + CountTrailing(Take(s, Len(s) - 1), cs)

LStripSet(s, cs) == Drop(s, CountLeading(s, cs))
RStripSet(s, cs) == Take(s, Len(s) - CountTrailing(s, cs))
LStrip(s) == LStripSet(s, Whitespace)
RStrip(s) == RStripSet(s, Whitespace)
Strip(s) == RStrip(LStrip(s))

AllIn(s, cs) == \A i \in 1..Len(s) : s[i] \in cs

\* index of the first occurrence of character c in s, 0 when absent
RECURSIVE IndexOf(_, _)
IndexOf(s, c) ==
    IF s = << >> THEN 0
    ELSE IF Head(s) = c THEN 1
    ELSE LET r == IndexOf(Tail(s), c) IN IF r = 0 THEN 0 ELSE r + 1

\* str.splitlines(): split on "\n", no empty last line after a final "\n"
RECURSIVE SplitLines(_)
SplitLines(s) ==
    IF s = << >> THEN << >>
    ELSE LET k == IndexOf(s, NL) IN
         IF k = 0 THEN <<s>>
         ELSE <<Take(s, k - 1)>> \o SplitLines(Drop(s, k))

\* sep.join(parts)
RECURSIVE Join(_, _)
Join(parts, sep) ==
    IF parts = << >> THEN << >>
    ELSE IF Len(parts) = 1 THEN parts[1]
    ELSE parts[1] \o sep \o Join(Tail(parts), sep)

\* str.split(sep) for a one-character separator
RECURSIVE Split(_, _)
Split(s, c) ==
    LET k == IndexOf(s, c) IN
    IF k = 0 THEN <<s>> ELSE <<Take(s, k - 1)>> \o Split(Drop(s, k), c)

DigitValue(c) ==
    CASE c = "0" -> 0 [] c = "1" -> 1 [] c = "2" -> 2 [] c = "3" -> 3
      [] c = "4" -> 4 [] c = "5" -> 5 [] c = "6" -> 6 [] c = "7" -> 7
      [] c = "8" -> 8 [] c = "9" -> 9

\* int(s) for a string of decimal digits
RECURSIVE ParseDigits(_)
ParseDigits(s) ==
    IF s = << >> THEN 0
    ELSE 10 * ParseDigits(Take(s, Len(s) - 1)) + DigitValue(s[Len(s)])

-----------------------------------------------------------------------------
(* MarkdownParser: the line patterns (parser.py 34-50), each a match record *)

NoMatch == [ok |-> FALSE]

\* the grave accent (the lexer of TLA+ refuses it inside a string)
Tick == "<tick>"
FenceTicks == <<Tick, Tick, Tick>>
LangChars == Letters \cup Digits \cup {"_", "-"}

\* ^(?P<indent>[ \t]*)```(?P<lang>[A-Za-z0-9_-]+)?\s*$
_code_fence_pattern(line) ==
    LET n == CountLeading(line, Blanks)
        rest == Drop(line, n)
        after == Drop(rest, 3)
        k == CountLeading(after, LangChars)
    IN  IF StartsWith(rest, FenceTicks) /\ AllIn(Drop(after, k), Whitespace)
        THEN [ok |-> TRUE, indent |-> Take(line, n),
              lang |-> IF k = 0 THEN None ELSE Take(after, k)]
        ELSE NoMatch

\* ^[ \t]*```\s*$
_code_fence_end_pattern(line) ==
    LET rest == LStripSet(line, Blanks)
    IN  StartsWith(rest, FenceTicks) /\ AllIn(Drop(rest, 3), Whitespace)

CalloutOpen == <<">", " ", "[", "!">>

\* ^(?P<indent>[ \t]*)> \[!(?P<type>[A-Za-z]+)\](?:\s+(?P<title>.*))?$
_callout_header_pattern(line) ==
    LET n == CountLeading(line, Blanks)
        rest == Drop(line, n)
        after == Drop(rest, 4)
        k == CountLeading(after, Letters)
        tail == Drop(after, k + 1)
        w == CountLeading(tail, Whitespace)
    IN  IF /\ StartsWith(rest, CalloutOpen)
           /\ k >= 1
           /\ Len(after) > k
           /\ after[k + 1] = "]"
           /\ (tail = << >> \/ w >= 1)
        THEN [ok |-> TRUE, indent |-> Take(line, n), type |-> Take(after, k),
              title |-> IF tail = << >> THEN None ELSE Drop(tail, w)]
        ELSE NoMatch

\* ^(?P<marks>#{1,6})[ \t]+(?P<title>.+)$
\* (when only blanks follow the marks, .+ takes the last of them)
_heading_pattern(line) ==
    LET n == CountLeading(line, {"#"})
        after == Drop(line, n)
        w == CountLeading(after, Blanks)
        rest == Drop(after, w)
    IN  IF n >= 1 /\ n <= 6 /\ w >= 1 /\ (rest # << >> \/ w >= 2)
        THEN [ok |-> TRUE, marks |-> Take(line, n),
              title |-> IF rest # << >> THEN rest ELSE <<after[w]>>]
        ELSE NoMatch

\* ^(?P<indent>[ \t]*)(?P<marker>(?:[-*+])|(?:\d+\.))\s+(?P<content>.*)$
_list_item_pattern(line) ==
    LET n == CountLeading(line, Blanks)
        rest == Drop(line, n)
        d == CountLeading(rest, Digits)
        m == IF rest # << >> /\ rest[1] \in {"-", "*", "+"} THEN 1
             ELSE IF d >= 1 /\ Len(rest) > d /\ rest[d + 1] = "." THEN d + 1
             ELSE 0
        after == Drop(rest, m)
        w == CountLeading(after, Whitespace)
    IN  IF m >= 1 /\ w >= 1
        THEN [ok |-> TRUE, indent |-> Take(line, n), marker |-> Take(rest, m),
              content |-> Drop(after, w), content_start |-> n + m + w]
        ELSE NoMatch

ImgOpen == <<"<", "i", "m", "g", " ", "s", "r", "c", "=", "\"">>
SvgExt == <<".", "s", "v", "g">>
ImgWidth == <<" ", "w", "i", "d", "t", "h", "=", "\"">>

\* ^<img src=\"(?P<path>[^\"]+)\.svg\" width=\"(?P<width>\d+)\"[^>]*>$
_image_line_pattern(line) ==
    LET after == Drop(line, Len(ImgOpen))
        q == IndexOf(after, "\"")
        quoted == Take(after, q - 1)
        more == Drop(after, q)
        digits == Drop(more, Len(ImgWidth))
        d == CountLeading(digits, Digits)
        tail == Drop(digits, d + 1)
    IN  IF /\ StartsWith(line, ImgOpen)
           /\ q >= 1
           /\ EndsWith(quoted, SvgExt)
           /\ Len(quoted) > Len(SvgExt)
           /\ StartsWith(more, ImgWidth)
           /\ d >= 1
           /\ Len(digits) > d
           /\ digits[d + 1] = "\""
           /\ tail # << >>
           /\ IndexOf(tail, ">") = Len(tail)
        THEN [ok |-> TRUE, path |-> Take(quoted, Len(quoted) - Len(SvgExt)),
              width |-> Take(digits, d)]
        ELSE NoMatch

\* ^\|(.+)\|$
_table_row_pattern(line) ==
    Len(line) >= 3 /\ line[1] = "|" /\ line[Len(line)] = "|"

\* ^\|[\s:|-]+\|$
_table_separator_pattern(line) ==
    /\ Len(line) >= 3 /\ line[1] = "|" /\ line[Len(line)] = "|"
    /\ AllIn(SubSeq(line, 2, Len(line) - 1), Whitespace \cup {":", "|", "-"})

\* ^[ \t]*([-*_])(?:[ \t]*\1){2,}[ \t]*$
_horizontal_rule_pattern(line) ==
    LET marks == SelectSeq(line, LAMBDA c : c \notin Blanks)
    IN  /\ Len(marks) >= 3
        /\ marks[1] \in {"-", "*", "_"}
        /\ \A i \in 1..Len(marks) : marks[i] = marks[1]

\* ^(?P<indent>[ \t]*)> ?(?P<rest>.*)$   (parser.py 369, 376)
ChevronPattern(line) ==
    LET n == CountLeading(line, Blanks)
        rest == Drop(line, n)
        after == Drop(rest, 1)
    IN  IF rest # << >> /\ rest[1] = ">"
        THEN [ok |-> TRUE, indent |-> Take(line, n),
              rest |-> IF after # << >> /\ after[1] = " " THEN Drop(after, 1)
                       ELSE after]
        ELSE NoMatch

-----------------------------------------------------------------------------
(* AST nodes (nodes.py) *)

Document(children) == [type |-> "Document", children |-> children]
Section(level, title) == [type |-> "Section", level |-> level, title |-> title]
Paragraph(content) == [type |-> "Paragraph", content |-> content]
List(ordered, items) == [type |-> "List", ordered |-> ordered, items |-> items]
ListItem(content) == [type |-> "ListItem", content |-> content]
CodeBlock(language, content) ==
    [type |-> "CodeBlock", language |-> language, content |-> content]
HorizontalRule == [type |-> "HorizontalRule"]
MathBlock(content) == [type |-> "MathBlock", content |-> content]
Callout(callout_type, title, children) ==
    [type |-> "Callout", callout_type |-> callout_type, title |-> title,
     children |-> children]
Image(source_path, width_px) ==
    [type |-> "Image", source_path |-> source_path, width_px |-> width_px]
Table(alignments, header, rows) ==
    [type |-> "Table", alignments |-> alignments, header |-> header,
     rows |-> rows]

-----------------------------------------------------------------------------
(* Outcomes of a call: a returned value or a raised exception *)

Return(v) == [raised |-> FALSE, value |-> v]
\* a ParsingError subclass raised with (line, content)  (exceptions.py 51-103)
RaiseParsing(kind, line, content) ==
    [raised |-> TRUE, kind |-> kind, line |-> line, content |-> content]
\* a built-in exception
Raise(kind) == [raised |-> TRUE, kind |-> kind]

ParsingErrors == {"InvalidCodeFenceError", "InvalidCalloutError",
                  "InvalidHeadingError", "InvalidListError",
                  "InvalidImageError"}

-----------------------------------------------------------------------------
(* MarkdownParser: line predicates and helpers (parser.py 361-442) *)

TAB_WIDTH == 4

_is_callout_header(line) == _callout_header_pattern(line).ok

_strip_leading_chevron(line) ==
    LET m == ChevronPattern(line)
    IN  IF m.ok THEN m.indent \o m.rest ELSE line

_normalized_line(line) ==
    IF _is_callout_header(line) THEN line ELSE _strip_leading_chevron(line)

_strip_callout_prefix(line) ==
    LET m == ChevronPattern(line)
    IN  IF m.ok THEN m.rest ELSE line

_is_blank(line) == Strip(line) = << >>

_is_code_fence_start(line) == _code_fence_pattern(line).ok

_is_blockquote_line(line) ==
    LET rest == LStripSet(line, Blanks)
    IN  rest # << >> /\ rest[1] = ">"

_is_heading(line) == _heading_pattern(line).ok

_is_list_item(line) == _list_item_pattern(line).ok

_is_image_line(line) == _image_line_pattern(Strip(line)).ok

MathOpenDollar == <<"$", "$">>
MathOpenBracket == <<"\\", "[">>
MathCloseBracket == <<"\\", "]">>

_is_math_block_start(line) ==
    LET stripped == Strip(line)
    IN  \/ stripped \in {MathOpenDollar, MathOpenBracket}
        \/ /\ StartsWith(stripped, MathOpenDollar)
           /\ EndsWith(stripped, MathOpenDollar)
           /\ Len(stripped) > 4
        \/ /\ StartsWith(stripped, MathOpenBracket)
           /\ EndsWith(stripped, MathCloseBracket)
           /\ Len(stripped) > 4

_is_horizontal_rule(line) == _horizontal_rule_pattern(line)

_is_ordered_marker(marker) == marker[Len(marker)] = "."

RECURSIVE _indent_width(_)
_indent_width(line) ==
    IF line = << >> THEN 0
    ELSE IF Head(line) = " " THEN 1 + _indent_width(Tail(line))
    ELSE IF Head(line) = "\t" THEN TAB_WIDTH + _indent_width(Tail(line))
    ELSE 0

_dedent_line(line, indent) ==
    IF Len(line) <= indent THEN LStrip(line) ELSE Drop(line, indent)

\* lines is the Python list; idx is its 0-based index
At(lines, idx) == lines[idx + 1]

_is_table_start(lines, idx) ==
    IF idx + 1 >= Len(lines) THEN FALSE
    ELSE /\ _table_row_pattern(Strip(_normalized_line(At(lines, idx))))
         /\ _table_separator_pattern(
                Strip(_normalized_line(At(lines, idx + 1))))

-----------------------------------------------------------------------------
(* MarkdownParser: the block parsers (parser.py 52-359).                   *)
(* A sub-parser returns Return([node, consumed]) or a raised ParsingError. *)

Parsed(node, consumed) == Return([node |-> node, consumed |-> consumed])

\* the loop of _parse_code_block closing at any fence line, tagged with a
\* language or not
RECURSIVE CodeBlockLoop_any_fence(_, _, _, _)
CodeBlockLoop_any_fence(lines, i, indent, content_lines) ==
    IF i >= Len(lines) THEN [content_lines |-> content_lines, i |-> i]
    ELSE LET normalized_line == _normalized_line(At(lines, i)) IN
         IF _code_fence_pattern(normalized_line).ok
         THEN [content_lines |-> content_lines, i |-> i + 1]
         ELSE IF indent # << >> /\ StartsWith(normalized_line, indent)
         THEN CodeBlockLoop_any_fence(lines, i + 1, indent,
                  Append(content_lines, Drop(normalized_line, Len(indent))))
         ELSE CodeBlockLoop_any_fence(lines, i + 1, indent,
                  Append(content_lines, normalized_line))

\* the while loop of _parse_code_block (parser.py 168-177):
\* the content lines and the index after the block
RECURSIVE CodeBlockLoop(_, _, _, _)
CodeBlockLoop(lines, i, indent, content_lines) ==
    IF i >= Len(lines) THEN [content_lines |-> content_lines, i |-> i]
    ELSE LET normalized_line == _normalized_line(At(lines, i)) IN
         IF _code_fence_end_pattern(normalized_line)
         THEN [content_lines |-> content_lines, i |-> i + 1]
         ELSE IF indent # << >> /\ StartsWith(normalized_line, indent)
         THEN CodeBlockLoop(lines, i + 1, indent,
                  Append(content_lines, Drop(normalized_line, Len(indent))))
         ELSE CodeBlockLoop(lines, i + 1, indent,
                  Append(content_lines, normalized_line))

_parse_code_block(lines, start_idx) ==
    LET match == _code_fence_pattern(_normalized_line(At(lines, start_idx)))
    IN  IF ~match.ok
        THEN RaiseParsing("InvalidCodeFenceError", start_idx + 1,
                          At(lines, start_idx))
        ELSE LET r == CodeBlockLoop(lines, start_idx + 1, match.indent, << >>)
             IN  Parsed(CodeBlock(match.lang, Join(r.content_lines, <<NL>>)),
                        r.i - start_idx)

\* the while loop of _parse_math_block (parser.py 188-194)
RECURSIVE MathBlockLoop(_, _, _, _)
MathBlockLoop(lines, i, end_delimiter, content_lines) ==
    IF i >= Len(lines) THEN [content_lines |-> content_lines, i |-> i]
    ELSE IF Strip(_normalized_line(At(lines, i))) = end_delimiter
    THEN [content_lines |-> content_lines, i |-> i + 1]
    ELSE MathBlockLoop(lines, i + 1, end_delimiter,
             Append(content_lines, _normalized_line(At(lines, i))))

_parse_math_block(lines, start_idx) ==
    LET start_line == Strip(_normalized_line(At(lines, start_idx)))
        inner == Strip(SubSeq(start_line, 3, Len(start_line) - 2))
    IN  IF start_line \in {MathOpenDollar, MathOpenBracket}
        THEN LET end_delimiter == IF start_line = MathOpenDollar
                                  THEN MathOpenDollar ELSE MathCloseBracket
                 r == MathBlockLoop(lines, start_idx + 1, end_delimiter, << >>)
             IN  Parsed(MathBlock(Join(r.content_lines, <<NL>>)),
                        r.i - start_idx)
        ELSE IF /\ StartsWith(start_line, MathOpenDollar)
                /\ EndsWith(start_line, MathOpenDollar)
                /\ Len(start_line) > 4
        THEN Parsed(MathBlock(inner), 1)
        ELSE IF /\ StartsWith(start_line, MathOpenBracket)
                /\ EndsWith(start_line, MathCloseBracket)
                /\ Len(start_line) > 4
        THEN Parsed(MathBlock(inner), 1)
        ELSE Parsed(MathBlock(start_line), 1)

_parse_heading(line, line_idx) ==
    LET match == _heading_pattern(line)
    IN  IF ~match.ok
        THEN RaiseParsing("InvalidHeadingError", line_idx + 1, line)
        ELSE Return(Section(Len(match.marks), Strip(match.title)))

_parse_image_line(line, line_idx) ==
    LET match == _image_line_pattern(Strip(line))
    IN  IF ~match.ok
        THEN RaiseParsing("InvalidImageError", line_idx + 1, line)
        ELSE Return(Image(match.path, ParseDigits(match.width)))

\* line.strip("|")
StripPipes(line) == RStripSet(LStripSet(line, {"|"}), {"|"})

_parse_table_row(line) ==
    LET cells == Split(StripPipes(line), "|")
    IN  [k \in 1..Len(cells) |-> Strip(cells[k])]

_parse_alignments(separator_line) ==
    LET cells == _parse_table_row(separator_line)
    IN  [k \in 1..Len(cells) |->
            IF StartsWith(cells[k], <<":">>) /\ EndsWith(cells[k], <<":">>)
            THEN "c"
            ELSE IF EndsWith(cells[k], <<":">>) THEN "r" ELSE "l"]

\* the while loop of _parse_table (parser.py 333-338)
RECURSIVE TableLoop(_, _, _)
TableLoop(lines, i, rows) ==
    IF i >= Len(lines) THEN [rows |-> rows, i |-> i]
    ELSE LET normalized_line == Strip(_normalized_line(At(lines, i))) IN
         IF ~_table_row_pattern(normalized_line)
         THEN [rows |-> rows, i |-> i]
         ELSE TableLoop(lines, i + 1,
                        Append(rows, _parse_table_row(normalized_line)))

_parse_table(lines, start_idx) ==
    LET header_line == Strip(_normalized_line(At(lines, start_idx)))
        separator_line == Strip(_normalized_line(At(lines, start_idx + 1)))
        r == TableLoop(lines, start_idx + 2, << >>)
    IN  Parsed(Table(_parse_alignments(separator_line),
                     _parse_table_row(header_line), r.rows),
               r.i - start_idx)

\* the block predicates that end a paragraph (parser.py 132-149)
EndsParagraph(lines, i) ==
    LET raw_line == At(lines, i)
        normalized_line == _normalized_line(raw_line)
    IN  \/ _is_blank(normalized_line)
        \/ _is_callout_header(raw_line)
        \/ _is_code_fence_start(normalized_line)
        \/ _is_math_block_start(normalized_line)
        \/ _is_heading(normalized_line)
        \/ _is_list_item(normalized_line)
        \/ _is_image_line(normalized_line)
        \/ _is_table_start(lines, i)
        \/ _is_horizontal_rule(normalized_line)

\* the paragraph loop of _parse_lines (parser.py 129-151)
RECURSIVE ParagraphLoop(_, _, _)
ParagraphLoop(lines, i, paragraph_lines) ==
    IF i >= Len(lines) \/ EndsParagraph(lines, i)
    THEN [paragraph_lines |-> paragraph_lines, i |-> i]
    ELSE ParagraphLoop(lines, i + 1,
             Append(paragraph_lines, _normalized_line(At(lines, i))))

\* the loop of _parse_callout without the test of the callout header: it
\* goes on through every blockquote line
RECURSIVE CalloutLoop_through(_, _, _)
CalloutLoop_through(lines, i, content_lines) ==
    IF i >= Len(lines) THEN [content_lines |-> content_lines, i |-> i]
    ELSE IF ~_is_blockquote_line(At(lines, i))
    THEN [content_lines |-> content_lines, i |-> i]
    ELSE CalloutLoop_through(lines, i + 1,
             Append(content_lines, _strip_callout_prefix(At(lines, i))))

\* the while loop of _parse_callout (parser.py 218-225)
RECURSIVE CalloutLoop(_, _, _)
CalloutLoop(lines, i, content_lines) ==
    IF i >= Len(lines) THEN [content_lines |-> content_lines, i |-> i]
    ELSE IF _is_callout_header(At(lines, i))
            \/ ~_is_blockquote_line(At(lines, i))
    THEN [content_lines |-> content_lines, i |-> i]
    ELSE CalloutLoop(lines, i + 1,
             Append(content_lines, _strip_callout_prefix(At(lines, i))))

\* ListItemLoop giving back the index of the marker line: the item consumes
\* no line
ListItemLoop_none(lines, i, base_indent, content_indent, item_lines) ==
    [item_lines |-> item_lines, i |-> i - 1]

\* the while loop of _parse_list_item (parser.py 282-297)
RECURSIVE ListItemLoop(_, _, _, _, _)
ListItemLoop(lines, i, base_indent, content_indent, item_lines) ==
    IF i >= Len(lines) THEN [item_lines |-> item_lines, i |-> i]
    ELSE LET normalized_line == _normalized_line(At(lines, i))
             next_match == _list_item_pattern(normalized_line)
         IN  IF _is_blank(normalized_line)
             THEN ListItemLoop(lines, i + 1, base_indent, content_indent,
                               Append(item_lines, << >>))
             ELSE IF next_match.ok
                     /\ _indent_width(next_match.indent) <= base_indent
             THEN [item_lines |-> item_lines, i |-> i]
             ELSE IF _indent_width(normalized_line) <= base_indent
             THEN [item_lines |-> item_lines, i |-> i]
             ELSE ListItemLoop(lines, i + 1, base_indent, content_indent,
                      Append(item_lines,
                             _dedent_line(normalized_line, content_indent)))

RECURSIVE _parse_lines(_)
RECURSIVE ParseLinesLoop(_, _, _)
RECURSIVE _parse_callout(_, _)
RECURSIVE _parse_list(_, _)
RECURSIVE ListLoop(_, _, _, _, _)
RECURSIVE _parse_list_item(_, _, _)
RECURSIVE ListLoopStep(_, _, _, _, _, _)
RECURSIVE ParseLinesStep(_, _, _, _)

\* the Callout returned once the content lines are parsed
\* (parser.py 208-215)
CalloutNode(match, children, consumed) ==
    IF children.raised THEN children
    ELSE Parsed(Callout(match.type,
                        IF match.title \in {None, << >>}
                        THEN None ELSE match.title,
                        children.value),
                consumed)

_parse_callout(lines, start_idx) ==
    LET header_line == At(lines, start_idx)
        match == _callout_header_pattern(header_line)
    IN  IF ~match.ok
        THEN RaiseParsing("InvalidCalloutError", start_idx + 1, header_line)
        ELSE LET r == CalloutLoop(lines, start_idx + 1, << >>)
             IN  CalloutNode(match, _parse_lines(r.content_lines),
                             r.i - start_idx)

\* the ListItem returned once the item lines are parsed
ListItemNode(children, consumed) ==
    IF children.raised THEN children
    ELSE Parsed(ListItem(children.value), consumed)

_parse_list_item(lines, start_idx, match) ==
    LET base_indent == _indent_width(match.indent)
        content_indent == match.content_start
        first_content == Strip(match.content)
        r == ListItemLoop(lines, start_idx + 1, base_indent, content_indent,
                          IF first_content # << >> THEN <<first_content>>
                          ELSE << >>)
    IN  ListItemNode(IF r.item_lines # << >> THEN _parse_lines(r.item_lines)
                     ELSE Return(<< >>),
                     r.i - start_idx)

\* the while loop of _parse_list (parser.py 251-266)
ListLoop(lines, i, base_indent, ordered, items) ==
    IF i >= Len(lines) THEN Return([items |-> items, i |-> i])
    ELSE LET normalized_line == _normalized_line(At(lines, i))
             item_match == _list_item_pattern(normalized_line)
         IN  IF _is_blank(normalized_line)
             THEN ListLoop(lines, i + 1, base_indent, ordered, items)
             ELSE IF ~item_match.ok
             THEN Return([items |-> items, i |-> i])
             ELSE IF _indent_width(item_match.indent) # base_indent
             THEN Return([items |-> items, i |-> i])
             ELSE IF _is_ordered_marker(item_match.marker) # ordered
             THEN Return([items |-> items, i |-> i])
             ELSE ListLoopStep(lines, i, base_indent, ordered, items,
                               _parse_list_item(lines, i, item_match))

\* the end of one round of that loop: the item is appended and the index
\* moves past the lines the item consumed
ListLoopStep(lines, i, base_indent, ordered, items, item) ==
    IF item.raised THEN item
    ELSE ListLoop(lines, i + item.value.consumed, base_indent, ordered,
                  Append(items, item.value.node))

\* the List returned once the items are parsed
ListNode(ordered, r, start_idx) ==
    IF r.raised THEN r
    ELSE Parsed(List(ordered, r.value.items), r.value.i - start_idx)

_parse_list(lines, start_idx) ==
    LET start_line == _normalized_line(At(lines, start_idx))
        match == _list_item_pattern(start_line)
    IN  IF ~match.ok
        THEN RaiseParsing("InvalidListError", start_idx + 1, start_line)
        ELSE LET ordered == _is_ordered_marker(match.marker)
             IN  ListNode(ordered,
                          ListLoop(lines, start_idx,
                                   _indent_width(match.indent), ordered,
                                   << >>),
                          start_idx)

\* one block parsed at index i: the first matching predicate decides
\* (parser.py 82-153)
ParseBlock(lines, i) ==
    LET raw_line == At(lines, i)
        normalized_line == _normalized_line(raw_line)
    IN  IF _is_callout_header(raw_line) THEN _parse_callout(lines, i)
        ELSE IF _is_code_fence_start(normalized_line)
        THEN _parse_code_block(lines, i)
        ELSE IF _is_math_block_start(normalized_line)
        THEN _parse_math_block(lines, i)
        ELSE IF _is_heading(normalized_line)
        THEN LET h == _parse_heading(normalized_line, i)
             IN  IF h.raised THEN h ELSE Parsed(h.value, 1)
        ELSE IF _is_list_item(normalized_line) THEN _parse_list(lines, i)
        ELSE IF _is_image_line(normalized_line)
        THEN LET g == _parse_image_line(normalized_line, i)
             IN  IF g.raised THEN g ELSE Parsed(g.value, 1)
        ELSE IF _is_table_start(lines, i) THEN _parse_table(lines, i)
        ELSE IF _is_horizontal_rule(normalized_line)
        THEN Parsed(HorizontalRule, 1)
        ELSE LET r == ParagraphLoop(lines, i + 1, <<normalized_line>>)
             IN  Parsed(Paragraph(Join(r.paragraph_lines, <<NL>>)), r.i - i)

\* the while loop of _parse_lines (parser.py 74-153)
ParseLinesLoop(lines, i, nodes) ==
    IF i >= Len(lines) THEN Return(nodes)
    ELSE IF _is_blank(_normalized_line(At(lines, i)))
    THEN ParseLinesLoop(lines, i + 1, nodes)
    ELSE ParseLinesStep(lines, i, nodes, ParseBlock(lines, i))

\* the end of one round of that loop: the block's node is appended and the
\* index moves past the lines the block consumed
ParseLinesStep(lines, i, nodes, b) ==
    IF b.raised THEN b
    ELSE ParseLinesLoop(lines, i + b.value.consumed,
                        Append(nodes, b.value.node))

_parse_lines(lines) == ParseLinesLoop(lines, 0, << >>)

\* MarkdownParser.parse
parse(source) ==
    LET children == _parse_lines(SplitLines(source))
    IN  IF children.raised THEN children ELSE Return(Document(children.value))

-----------------------------------------------------------------------------
(* The sources the model converts: joins of fragments, each a few lines *)
(* that hold one construct, well formed or malformed                    *)

FragHeading == << <<"#", " ", "T">> >>
FragBadHeading == << <<"#", "#", "n", "o">> >>
FragCode ==
    << <<Tick, Tick, Tick, "p", "y">>,
       <<"x">>,
       <<Tick, Tick, Tick>> >>
FragBadFence == << <<Tick, Tick, Tick, "a", " ", "b">> >>
FragCallout ==
    << <<">", " ", "[", "!", "n", "o", "t", "e", "]", " ", "T">>,
       <<">", " ", "b">> >>
FragBadCallout == << <<">", " ", "[", "!", "b", "a", "d">> >>
FragList == << <<"-", " ", "a">>, <<" ", " ", "b">> >>
FragBadList == << <<"-", "a">> >>
FragImage ==
    << ImgOpen \o <<"a">> \o SvgExt \o <<"\"">> \o ImgWidth
       \o <<"1", "\"", ">">> >>
FragBadImage == << <<"<", "i", "m", "g", ">">> >>
FragTable ==
    << <<"|", "A", "|">>,
       <<"|", "-", "|">>,
       <<"|", "1", "{", "c", "o", "l", "=", "x", "}", "|">> >>
FragRule == << <<"-", "-", "-">> >>
FragMath == << <<"$", "$">>, <<"x">>, <<"$", "$">> >>
FragParagraph == << <<"p">> >>
FragBlank == << << >> >>
FragFootnote ==
    << <<"[", "^", "k", "]", ":", " ", "f">>,
       <<" ", " ", " ", " ", "c">> >>
FragYaml == << <<"-", "-", "-">>, <<"t", ":", " ", "1">>, <<"-", "-", "-">> >>
FragReference ==
    << <<"r", "[", "^", "k", "]", " ", "[", "^", "u", "]">> >>

Fragments == {FragHeading, FragBadHeading, FragCode, FragBadFence,
              FragCallout, FragBadCallout, FragList, FragBadList,
              FragImage, FragBadImage, FragTable, FragRule,
              FragMath, FragParagraph, FragBlank, FragFootnote,
              FragYaml, FragReference}

RECURSIVE Flatten(_)
Flatten(seqs) ==
    IF seqs = << >> THEN << >> ELSE Head(seqs) \o Flatten(Tail(seqs))

FragmentSeqs == UNION {[1..n -> Fragments] : n \in 0..MaxFragments}

\* the source text of a sequence of fragments: its lines joined by "\n"
SourceOf(fs) == Join(Flatten(fs), <<NL>>)

Sources == {SourceOf(fs) : fs \in FragmentSeqs}

-----------------------------------------------------------------------------
(* Values of a configuration mapping (the dict projection, an override      *)
(* mapping, a YAML or JSON load): each carries its Python type              *)

StrV(s) == [t |-> "str", v |-> s]
IntV(n) == [t |-> "int", v |-> n]
BoolV(b) == [t |-> "bool", v |-> b]
NoneV == [t |-> "none"]
MapV(m) == [t |-> "map", v |-> m]
ListV(l) == [t |-> "list", v |-> l]

EmptyMap == MapV(<< >>)

\* Python truthiness: `not value`
Truthy(x) ==
    CASE x.t = "none" -> FALSE
      [] x.t = "bool" -> x.v
      [] x.t = "int" -> x.v # 0
      [] x.t = "str" -> x.v # << >>
      [] x.t = "map" -> DOMAIN x.v # {}
      [] x.t = "list" -> x.v # << >>

\* isinstance(value, Mapping)
IsMapping(x) == x.t = "map"

\* dict.get(key, default)
Get(d, key, default) == IF key \in DOMAIN d THEN d[key] ELSE default

\* str(n) for an integer
RECURSIVE NatToStr(_)
NatToStr(n) ==
    LET digit == CHOOSE c \in Digits : DigitValue(c) = n % 10
    IN  IF n < 10 THEN <<digit>> ELSE NatToStr(n \div 10) \o <<digit>>

IntToStr(n) == IF n < 0 THEN <<"-">> \o NatToStr(-n) ELSE NatToStr(n)

\* str(value); the repr of a mapping or a list is outside the inputs
StrOf(x) ==
    CASE x.t = "str" -> x.v
      [] x.t = "int" -> IntToStr(x.v)
      [] x.t = "bool" -> IF x.v THEN <<"T", "r", "u", "e">> ELSE <<"F", "a", "l", "s", "e">>
      [] x.t = "none" -> <<"N", "o", "n", "e">>

\* whether int(value) raises, and the exception it raises
IntError(x) ==
    CASE x.t \in {"int", "bool"} -> ""
      [] x.t = "str" ->
            LET digits == Strip(x.v)
                body == IF digits # << >> /\ digits[1] \in {"-", "+"}
                        THEN Tail(digits) ELSE digits
            IN  IF body # << >> /\ AllIn(body, Digits) THEN ""
                ELSE "ValueError"
      [] OTHER -> "TypeError"

\* int(value) when it does not raise
IntOf(x) ==
    CASE x.t = "int" -> x.v
      [] x.t = "bool" -> IF x.v THEN 1 ELSE 0
      [] x.t = "str" ->
            LET digits == Strip(x.v)
            IN  IF digits[1] = "-" THEN 0 - ParseDigits(Tail(digits))
                ELSE IF digits[1] = "+" THEN ParseDigits(Tail(digits))
                ELSE ParseDigits(digits)

\* bool(value)
BoolOf(x) == Truthy(x)

\* a value stored as given: None, or a string
Stored(x) == IF x.t = "none" THEN None ELSE x.v
Given(x) == IF x = None THEN NoneV ELSE StrV(x)

-----------------------------------------------------------------------------
(* Default constants (constants.py) *)

DEFAULT_SECTION_COMMANDS ==
    (1 :> <<"s", "e", "c", "t", "i", "o", "n">>) @@ (2 :> <<"s", "u", "b", "s", "e", "c", "t", "i", "o", "n">>) @@ (3 :> <<"s", "u", "b", "s", "u", "b", "s", "e", "c", "t", "i", "o", "n">>)
    @@ (4 :> <<"p", "a", "r", "a", "g", "r", "a", "p", "h">>)

DEFAULT_TEXTTT_ESCAPE_MAP ==
    ("\\" :> <<"\\", "t", "e", "x", "t", "b", "a", "c", "k", "s", "l", "a", "s", "h", "{", "}">>) @@ ("{" :> <<"\\", "{">>) @@ ("}" :> <<"\\", "}">>)
    @@ ("#" :> <<"\\", "#">>) @@ ("$" :> <<"\\", "$">>) @@ ("%" :> <<"\\", "%">>)
    @@ ("&" :> <<"\\", "&">>) @@ ("_" :> <<"\\", "_">>)
    @@ ("~" :> <<"\\", "t", "e", "x", "t", "a", "s", "c", "i", "i", "t", "i", "l", "d", "e", "{", "}">>) @@ ("^" :> <<"\\", "t", "e", "x", "t", "a", "s", "c", "i", "i", "c", "i", "r", "c", "u", "m", "{", "}">>)

\* the typographic characters of the normalization table, by name
RightQuote == "<rsquo>"
LessEqual == "<leq>"
GreaterEqual == "<geq>"
OeLigature == "<oe>"
EnDash == "<endash>"

DEFAULT_CHARACTER_NORMALIZATION ==
    << <<<<RightQuote>>, <<"'">>>>, <<<<LessEqual>>, <<"\\", "l", "e", "q">>>>,
       <<<<GreaterEqual>>, <<"\\", "g", "e", "q">>>>, <<<<OeLigature>>, <<"o", "e">>>>,
       <<<<EnDash>>, <<"-">>>> >>

DEFAULT_FIGURES_PDF_PATH == <<".", ".", "/", "f", "i", "g", "u", "r", "e", "s", "-", "p", "d", "f", "s">>

DEFAULT_CALLOUT_ENV_TEMPLATE == <<"{", "t", "y", "p", "e", "}", "b", "o", "x">>

DEFAULT_IMAGE_BLOCK_TEMPLATE ==
    <<"\\", "\\", "b", "e", "g", "i", "n", "{", "{", "c", "e", "n", "t", "e", "r", "}", "}", "\\", "n">>
    \o <<"{", "i", "n", "c", "l", "u", "d", "e", "_", "c", "o", "m", "m", "a", "n", "d", "}", "[", "w", "i", "d", "t", "h", "=", "{", "w", "i", "d", "t", "h", "}", "{", "u", "n", "i", "t", "}", "]">>
    \o <<"{", "{", "{", "p", "a", "t", "h", "_", "p", "r", "e", "f", "i", "x", "}", "/", "{", "s", "o", "u", "r", "c", "e", "}", "{", "p", "a", "t", "h", "_", "s", "u", "f", "f", "i", "x", "}", "}", "}", "\\", "n">>
    \o <<"\\", "\\", "e", "n", "d", "{", "{", "c", "e", "n", "t", "e", "r", "}", "}">>

-----------------------------------------------------------------------------
(* The frozen sub-configs with their dataclass defaults (config.py 43-290) *)

HeadingConfig(anchor_level, commands, fallback_command) ==
    [anchor_level |-> anchor_level, commands |-> commands,
     fallback_command |-> fallback_command]

InlineConfig(bold_command, italic_command, code_command, line_break_command,
             texttt_escape_map, character_normalization) ==
    [bold_command |-> bold_command, italic_command |-> italic_command,
     code_command |-> code_command,
     line_break_command |-> line_break_command,
     texttt_escape_map |-> texttt_escape_map,
     character_normalization |-> character_normalization]

LinkConfig(external_link_template, url_only_template, autolink_template,
           internal_ref_template) ==
    [external_link_template |-> external_link_template,
     url_only_template |-> url_only_template,
     autolink_template |-> autolink_template,
     internal_ref_template |-> internal_ref_template]

CitationConfig(cite_template, cite_with_locator_template, separator,
               multi_cite_separator) ==
    [cite_template |-> cite_template,
     cite_with_locator_template |-> cite_with_locator_template,
     separator |-> separator, multi_cite_separator |-> multi_cite_separator]

FootnoteConfig(footnote_template) == [footnote_template |-> footnote_template]

ImageConfig(path_prefix, path_suffix, width_unit, include_command,
            block_template, base_dir, validate_paths) ==
    [path_prefix |-> path_prefix, path_suffix |-> path_suffix,
     width_unit |-> width_unit, include_command |-> include_command,
     block_template |-> block_template, base_dir |-> base_dir,
     validate_paths |-> validate_paths]

ListConfig(unordered_environment, ordered_environment) ==
    [unordered_environment |-> unordered_environment,
     ordered_environment |-> ordered_environment]

CodeBlockConfig(environment, options_template) ==
    [environment |-> environment, options_template |-> options_template]

CalloutConfig(environment_map, default_environment_template, title_template,
              type_normalization) ==
    [environment_map |-> environment_map,
     default_environment_template |-> default_environment_template,
     title_template |-> title_template,
     type_normalization |-> type_normalization]

TableConfig(environment, include_hlines, multicolumn_align,
            multirow_command) ==
    [environment |-> environment, include_hlines |-> include_hlines,
     multicolumn_align |-> multicolumn_align,
     multirow_command |-> multirow_command]

ParsingConfig(strip_yaml_front_matter) ==
    [strip_yaml_front_matter |-> strip_yaml_front_matter]

MathConfig(block_style) == [block_style |-> block_style]

LabelConfig(auto_label_headings, label_template, label_prefix,
            label_separator) ==
    [auto_label_headings |-> auto_label_headings,
     label_template |-> label_template, label_prefix |-> label_prefix,
     label_separator |-> label_separator]

WikiLinkConfig(link_template, alias_template, label_separator) ==
    [link_template |-> link_template, alias_template |-> alias_template,
     label_separator |-> label_separator]

DefaultHeadingConfig ==
    HeadingConfig(1, DEFAULT_SECTION_COMMANDS, <<"p", "a", "r", "a", "g", "r", "a", "p", "h">>)
DefaultInlineConfig ==
    InlineConfig(<<"t", "e", "x", "t", "b", "f">>, <<"t", "e", "x", "t", "i", "t">>, <<"t", "e", "x", "t", "t", "t">>, <<"n", "e", "w", "l", "i", "n", "e">>,
                 DEFAULT_TEXTTT_ESCAPE_MAP, DEFAULT_CHARACTER_NORMALIZATION)
DefaultLinkConfig ==
    LinkConfig(<<"\\", "h", "r", "e", "f", "{", "{", "{", "u", "r", "l", "}", "}", "}", "{", "{", "{", "t", "e", "x", "t", "}", "}", "}">>, <<"\\", "u", "r", "l", "{", "{", "{", "u", "r", "l", "}", "}", "}">>,
               <<"\\", "u", "r", "l", "{", "{", "{", "u", "r", "l", "}", "}", "}">>, <<"\\", "r", "e", "f", "{", "{", "{", "l", "a", "b", "e", "l", "}", "}", "}">>)
DefaultCitationConfig ==
    CitationConfig(<<"\\", "c", "i", "t", "e", "{", "{", "{", "k", "e", "y", "s", "}", "}", "}">>, <<"\\", "c", "i", "t", "e", "[", "{", "l", "o", "c", "a", "t", "o", "r", "}", "]", "{", "{", "{", "k", "e", "y", "s", "}", "}", "}">>,
                   <<",">>, <<" ">>)
DefaultFootnoteConfig == FootnoteConfig(<<"\\", "f", "o", "o", "t", "n", "o", "t", "e", "{", "{", "{", "t", "e", "x", "t", "}", "}", "}">>)
DefaultImageConfig ==
    ImageConfig(DEFAULT_FIGURES_PDF_PATH, <<".", "p", "d", "f">>, <<"\\", "h", "t", "m", "l", "p", "x">>,
                <<"\\", "i", "n", "c", "l", "u", "d", "e", "g", "r", "a", "p", "h", "i", "c", "s">>, DEFAULT_IMAGE_BLOCK_TEMPLATE, None,
                FALSE)
DefaultListConfig == ListConfig(<<"i", "t", "e", "m", "i", "z", "e">>, <<"e", "n", "u", "m", "e", "r", "a", "t", "e">>)
DefaultCodeBlockConfig == CodeBlockConfig(<<"l", "s", "t", "l", "i", "s", "t", "i", "n", "g">>, None)
DefaultCalloutConfig ==
    CalloutConfig(<< >>, DEFAULT_CALLOUT_ENV_TEMPLATE, <<"[", "{", "t", "i", "t", "l", "e", "}", "]">>,
                  <<"l", "o", "w", "e", "r">>)
DefaultTableConfig == TableConfig(<<"t", "a", "b", "u", "l", "a", "r">>, TRUE, <<"c">>, <<"m", "u", "l", "t", "i", "r", "o", "w">>)
DefaultParsingConfig == ParsingConfig(FALSE)
DefaultMathConfig == MathConfig(<<"d", "o", "l", "l", "a", "r", "s">>)
DefaultLabelConfig == LabelConfig(FALSE, <<"\\", "l", "a", "b", "e", "l", "{", "{", "{", "l", "a", "b", "e", "l", "}", "}", "}">>, << >>, <<"-">>)
DefaultWikiLinkConfig ==
    WikiLinkConfig(<<"\\", "r", "e", "f", "{", "{", "{", "l", "a", "b", "e", "l", "}", "}", "}">>, <<"\\", "r", "e", "f", "{", "{", "{", "l", "a", "b", "e", "l", "}", "}", "}">>, <<"-">>)

\* ConversionConfig(): every sub-config at its dataclass default
ConversionConfig ==
    [headings |-> DefaultHeadingConfig, inline |-> DefaultInlineConfig,
     links |-> DefaultLinkConfig, citations |-> DefaultCitationConfig,
     footnotes |-> DefaultFootnoteConfig, images |-> DefaultImageConfig,
     lists |-> DefaultListConfig, code_blocks |-> DefaultCodeBlockConfig,
     callouts |-> DefaultCalloutConfig, tables |-> DefaultTableConfig,
     parsing |-> DefaultParsingConfig, math |-> DefaultMathConfig,
     labels |-> DefaultLabelConfig, wiki_links |-> DefaultWikiLinkConfig]

\* resolve_command without the clamp to relative level 1
resolve_command_unclamped(headings, markdown_level) ==
    Get(headings.commands, markdown_level - headings.anchor_level + 1,
        headings.fallback_command)

\* HeadingConfig.resolve_command  (config.py 51-56)
resolve_command(headings, markdown_level) ==
    LET relative_level == markdown_level - headings.anchor_level + 1
        clamped == IF relative_level < 1 THEN 1 ELSE relative_level
    IN  Get(headings.commands, clamped, headings.fallback_command)

-----------------------------------------------------------------------------
(* ConversionConfig: dict projection, reconstruction, overrides            *)
(* (config.py 20-28, 292-551)                                              *)

RECURSIVE _deep_merge(_, _)
_deep_merge(base, override) ==
    [key \in DOMAIN base \cup DOMAIN override |->
        IF key \notin DOMAIN override THEN base[key]
        ELSE IF /\ IsMapping(override[key])
                /\ key \in DOMAIN base
                /\ IsMapping(base[key])
        THEN MapV(_deep_merge(base[key].v, override[key].v))
        ELSE override[key]]

\* dict(mapping) of strings, each wrapped as a str value
StrMapV(m) == MapV([k \in DOMAIN m |-> StrV(m[k])])

\* list(character_normalization)
PairListV(pairs) ==
    ListV([k \in 1..Len(pairs) |-> <<StrV(pairs[k][1]), StrV(pairs[k][2])>>])

to_dict(self) ==
    [headings |-> MapV(
        [anchor_level |-> IntV(self.headings.anchor_level),
         commands |-> StrMapV(self.headings.commands),
         fallback_command |-> StrV(self.headings.fallback_command)]),
     inline |-> MapV(
        [bold_command |-> StrV(self.inline.bold_command),
         italic_command |-> StrV(self.inline.italic_command),
         code_command |-> StrV(self.inline.code_command),
         line_break_command |-> StrV(self.inline.line_break_command),
         texttt_escape_map |-> StrMapV(self.inline.texttt_escape_map),
         character_normalization |->
            PairListV(self.inline.character_normalization)]),
     links |-> MapV(
        [external_link_template |-> StrV(self.links.external_link_template),
         url_only_template |-> StrV(self.links.url_only_template),
         autolink_template |-> StrV(self.links.autolink_template),
         internal_ref_template |-> StrV(self.links.internal_ref_template)]),
     citations |-> MapV(
        [cite_template |-> StrV(self.citations.cite_template),
         cite_with_locator_template |->
            StrV(self.citations.cite_with_locator_template),
         separator |-> StrV(self.citations.separator),
         multi_cite_separator |-> StrV(self.citations.multi_cite_separator)]),
     footnotes |-> MapV(
        [footnote_template |-> StrV(self.footnotes.footnote_template)]),
     images |-> MapV(
        [path_prefix |-> StrV(self.images.path_prefix),
         path_suffix |-> StrV(self.images.path_suffix),
         width_unit |-> StrV(self.images.width_unit),
         include_command |-> StrV(self.images.include_command),
         block_template |-> StrV(self.images.block_template),
         base_dir |-> Given(self.images.base_dir),
         validate_paths |-> BoolV(self.images.validate_paths)]),
     lists |-> MapV(
        [unordered_environment |-> StrV(self.lists.unordered_environment),
         ordered_environment |-> StrV(self.lists.ordered_environment)]),
     code_blocks |-> MapV(
        [environment |-> StrV(self.code_blocks.environment),
         options_template |-> Given(self.code_blocks.options_template)]),
     callouts |-> MapV(
        [environment_map |-> StrMapV(self.callouts.environment_map),
         default_environment_template |->
            StrV(self.callouts.default_environment_template),
         title_template |-> Given(self.callouts.title_template),
         type_normalization |-> StrV(self.callouts.type_normalization)]),
     tables |-> MapV(
        [environment |-> StrV(self.tables.environment),
         include_hlines |-> BoolV(self.tables.include_hlines),
         multicolumn_align |-> StrV(self.tables.multicolumn_align),
         multirow_command |-> StrV(self.tables.multirow_command)]),
     parsing |-> MapV(
        [strip_yaml_front_matter |->
            BoolV(self.parsing.strip_yaml_front_matter)]),
     math |-> MapV([block_style |-> StrV(self.math.block_style)]),
     labels |-> MapV(
        [auto_label_headings |-> BoolV(self.labels.auto_label_headings),
         label_template |-> StrV(self.labels.label_template),
         label_prefix |-> StrV(self.labels.label_prefix),
         label_separator |-> StrV(self.labels.label_separator)]),
     wiki_links |-> MapV(
        [link_template |-> StrV(self.wiki_links.link_template),
         alias_template |-> StrV(self.wiki_links.alias_template),
         label_separator |-> StrV(self.wiki_links.label_separator)])]

\* {int(key): str(val)} or {str(key): str(val)}: the keys of the model's
\* mappings already have the key type
CoerceEntries(m) == [k \in DOMAIN m |-> StrOf(m[k])]

\* _coerce_int_mapping  (config.py 538-543)
_coerce_int_mapping(value) ==
    IF ~Truthy(value) THEN Return(DEFAULT_SECTION_COMMANDS)
    ELSE IF ~IsMapping(value) THEN Raise("TypeError")
    ELSE Return(CoerceEntries(value.v))

\* _coerce_str_mapping  (config.py 546-551)
_coerce_str_mapping(value) ==
    IF ~Truthy(value) THEN Return(<< >>)
    ELSE IF ~IsMapping(value) THEN Raise("TypeError")
    ELSE Return(CoerceEntries(value.v))

\* inline_data's texttt_escape_map:
\* _coerce_str_mapping(...) or dict(DEFAULT_TEXTTT_ESCAPE_MAP)
TextttEscapeMapOf(value) ==
    LET coerced == _coerce_str_mapping(value)
    IN  IF coerced.raised THEN coerced
        ELSE IF DOMAIN coerced.value = {}
        THEN Return(DEFAULT_TEXTTT_ESCAPE_MAP)
        ELSE coerced

\* tuple(tuple(pair) for pair in ...)
PairsOf(value) ==
    [k \in 1..Len(value.v) |-> <<StrOf(value.v[k][1]), StrOf(value.v[k][2])>>]

\* the first exception among the steps of a construction, "" when none
RECURSIVE FirstError(_)
FirstError(errors) ==
    IF errors = << >> THEN ""
    ELSE IF Head(errors) # "" THEN Head(errors)
    ELSE FirstError(Tail(errors))

\* section.get(...) on a value that is no mapping
SectionError(section) == IF IsMapping(section) THEN "" ELSE "AttributeError"

RaisedKind(outcome) == IF outcome.raised THEN outcome.kind ELSE ""

from_dict(data) ==
    IF ~Truthy(data) THEN Return(ConversionConfig)
    ELSE
    LET headings_data == Get(data.v, "headings", EmptyMap)
        inline_data == Get(data.v, "inline", EmptyMap)
        links_data == Get(data.v, "links", EmptyMap)
        citations_data == Get(data.v, "citations", EmptyMap)
        footnotes_data == Get(data.v, "footnotes", EmptyMap)
        images_data == Get(data.v, "images", EmptyMap)
        lists_data == Get(data.v, "lists", Get(data.v, "list", EmptyMap))
        code_blocks_data ==
            Get(data.v, "code_blocks", Get(data.v, "code-blocks", EmptyMap))
        callouts_data == Get(data.v, "callouts", EmptyMap)
        tables_data == Get(data.v, "tables", EmptyMap)
        parsing_data == Get(data.v, "parsing", EmptyMap)
        math_data == Get(data.v, "math", EmptyMap)
        labels_data == Get(data.v, "labels", EmptyMap)
        wiki_links_data == Get(data.v, "wiki_links", EmptyMap)
        anchor == Get(headings_data.v, "anchor_level", IntV(1))
        commands == _coerce_int_mapping(Get(headings_data.v, "commands", NoneV))
        escapes ==
            TextttEscapeMapOf(Get(inline_data.v, "texttt_escape_map", NoneV))
        environments ==
            _coerce_str_mapping(Get(callouts_data.v, "environment_map", NoneV))
        error == FirstError(<<
            SectionError(headings_data),
            IF IsMapping(headings_data) THEN IntError(anchor) ELSE "",
            IF IsMapping(headings_data) THEN RaisedKind(commands) ELSE "",
            SectionError(inline_data),
            IF IsMapping(inline_data) THEN RaisedKind(escapes) ELSE "",
            SectionError(links_data), SectionError(citations_data),
            SectionError(footnotes_data), SectionError(images_data),
            SectionError(lists_data), SectionError(code_blocks_data),
            SectionError(callouts_data),
            IF IsMapping(callouts_data) THEN RaisedKind(environments) ELSE "",
            SectionError(tables_data), SectionError(parsing_data),
            SectionError(math_data), SectionError(labels_data),
            SectionError(wiki_links_data) >>)
    IN  IF error # "" THEN Raise(error)
        ELSE Return(
    [headings |-> HeadingConfig(
        IntOf(anchor),
        commands.value,
        StrOf(Get(headings_data.v, "fallback_command", StrV(<<"p", "a", "r", "a", "g", "r", "a", "p", "h">>)))),
     inline |-> InlineConfig(
        StrOf(Get(inline_data.v, "bold_command", StrV(<<"t", "e", "x", "t", "b", "f">>))),
        StrOf(Get(inline_data.v, "italic_command", StrV(<<"t", "e", "x", "t", "i", "t">>))),
        StrOf(Get(inline_data.v, "code_command", StrV(<<"t", "e", "x", "t", "t", "t">>))),
        StrOf(Get(inline_data.v, "line_break_command", StrV(<<"n", "e", "w", "l", "i", "n", "e">>))),
        escapes.value,
        PairsOf(Get(inline_data.v, "character_normalization",
                    PairListV(DEFAULT_CHARACTER_NORMALIZATION)))),
     links |-> LinkConfig(
        StrOf(Get(links_data.v, "external_link_template",
                  StrV(<<"\\", "h", "r", "e", "f", "{", "u", "r", "l", "}", "{", "t", "e", "x", "t", "}">>))),
        StrOf(Get(links_data.v, "url_only_template", StrV(<<"\\", "u", "r", "l", "{", "u", "r", "l", "}">>))),
        StrOf(Get(links_data.v, "autolink_template", StrV(<<"\\", "u", "r", "l", "{", "u", "r", "l", "}">>))),
        StrOf(Get(links_data.v, "internal_ref_template",
                  StrV(<<"\\", "r", "e", "f", "{", "{", "{", "l", "a", "b", "e", "l", "}", "}", "}">>)))),
     citations |-> CitationConfig(
        StrOf(Get(citations_data.v, "cite_template",
                  StrV(<<"\\", "c", "i", "t", "e", "{", "{", "{", "k", "e", "y", "s", "}", "}", "}">>))),
        StrOf(Get(citations_data.v, "cite_with_locator_template",
                  StrV(<<"\\", "c", "i", "t", "e", "[", "{", "l", "o", "c", "a", "t", "o", "r", "}", "]", "{", "{", "{", "k", "e", "y", "s", "}", "}", "}">>))),
        StrOf(Get(citations_data.v, "separator", StrV(<<",">>))),
        StrOf(Get(citations_data.v, "multi_cite_separator", StrV(<<" ">>)))),
     footnotes |-> FootnoteConfig(
        StrOf(Get(footnotes_data.v, "footnote_template",
                  StrV(<<"\\", "f", "o", "o", "t", "n", "o", "t", "e", "{", "{", "{", "t", "e", "x", "t", "}", "}", "}">>)))),
     images |-> ImageConfig(
        StrOf(Get(images_data.v, "path_prefix",
                  StrV(DEFAULT_FIGURES_PDF_PATH))),
        StrOf(Get(images_data.v, "path_suffix", StrV(<<".", "p", "d", "f">>))),
        StrOf(Get(images_data.v, "width_unit", StrV(<<"\\", "h", "t", "m", "l", "p", "x">>))),
        StrOf(Get(images_data.v, "include_command",
                  StrV(<<"\\", "i", "n", "c", "l", "u", "d", "e", "g", "r", "a", "p", "h", "i", "c", "s">>))),
        StrOf(Get(images_data.v, "block_template",
                  StrV(DEFAULT_IMAGE_BLOCK_TEMPLATE))),
        Stored(Get(images_data.v, "base_dir", NoneV)),
        BoolOf(Get(images_data.v, "validate_paths", BoolV(FALSE)))),
     lists |-> ListConfig(
        StrOf(Get(lists_data.v, "unordered_environment", StrV(<<"i", "t", "e", "m", "i", "z", "e">>))),
        StrOf(Get(lists_data.v, "ordered_environment", StrV(<<"e", "n", "u", "m", "e", "r", "a", "t", "e">>)))),
     code_blocks |-> CodeBlockConfig(
        StrOf(Get(code_blocks_data.v, "environment", StrV(<<"l", "s", "t", "l", "i", "s", "t", "i", "n", "g">>))),
        Stored(Get(code_blocks_data.v, "options_template", NoneV))),
     callouts |-> CalloutConfig(
        environments.value,
        StrOf(Get(callouts_data.v, "default_environment_template",
                  StrV(DEFAULT_CALLOUT_ENV_TEMPLATE))),
        Stored(Get(callouts_data.v, "title_template", StrV(<<"[", "{", "t", "i", "t", "l", "e", "}", "]">>))),
        StrOf(Get(callouts_data.v, "type_normalization", StrV(<<"l", "o", "w", "e", "r">>)))),
     tables |-> TableConfig(
        StrOf(Get(tables_data.v, "environment", StrV(<<"t", "a", "b", "u", "l", "a", "r">>))),
        BoolOf(Get(tables_data.v, "include_hlines", BoolV(TRUE))),
        StrOf(Get(tables_data.v, "multicolumn_align", StrV(<<"c">>))),
        StrOf(Get(tables_data.v, "multirow_command", StrV(<<"m", "u", "l", "t", "i", "r", "o", "w">>)))),
     parsing |-> ParsingConfig(
        BoolOf(Get(parsing_data.v, "strip_yaml_front_matter", BoolV(FALSE)))),
     math |-> MathConfig(
        StrOf(Get(math_data.v, "block_style", StrV(<<"d", "o", "l", "l", "a", "r", "s">>)))),
     labels |-> LabelConfig(
        BoolOf(Get(labels_data.v, "auto_label_headings", BoolV(FALSE))),
        StrOf(Get(labels_data.v, "label_template",
                  StrV(<<"\\", "l", "a", "b", "e", "l", "{", "{", "{", "l", "a", "b", "e", "l", "}", "}", "}">>))),
        StrOf(Get(labels_data.v, "label_prefix", StrV(<< >>))),
        StrOf(Get(labels_data.v, "label_separator", StrV(<<"-">>)))),
     wiki_links |-> WikiLinkConfig(
        StrOf(Get(wiki_links_data.v, "link_template",
                  StrV(<<"\\", "r", "e", "f", "{", "{", "{", "l", "a", "b", "e", "l", "}", "}", "}">>))),
        StrOf(Get(wiki_links_data.v, "alias_template",
                  StrV(<<"\\", "r", "e", "f", "{", "{", "{", "l", "a", "b", "e", "l", "}", "}", "}">>))),
        StrOf(Get(wiki_links_data.v, "label_separator", StrV(<<"-">>))))])

\* ConversionConfig.with_overrides  (config.py 531-535)
with_overrides(self, overrides) ==
    IF ~Truthy(overrides) THEN Return(self)
    ELSE from_dict(MapV(_deep_merge(to_dict(self), overrides.v)))

-----------------------------------------------------------------------------
(* Configurations at work: construction, overrides, heading commands       *)

\* heading levels asked of resolve_command run from -1 to MaxLevel, and
\* anchor levels of constructed configurations from -1 to MaxAnchor
MaxLevel == 6
MaxAnchor == 3

\* a chain of with_overrides calls has at most this many links
MaxOverrides == 2

Levels == -1..MaxLevel
AnchorLevels == -1..MaxAnchor

\* command maps given to HeadingConfig(...) directly
CommandMaps ==
    {DEFAULT_SECTION_COMMANDS, << >>, (1 :> <<"c", "h", "a", "p", "t", "e", "r">>) @@ (3 :> <<"s", "e", "c", "t", "i", "o", "n">>)}

\* escape maps given to InlineConfig(...) directly
EscapeMaps == {DEFAULT_TEXTTT_ESCAPE_MAP, << >>}

\* mappings given to from_dict: well-formed ones, and ones whose sections
\* or settings have the wrong shape
Dicts ==
    <<NoneV, EmptyMap,
     MapV([lists |-> EmptyMap]),
     MapV([extra |-> IntV(1)]),
     MapV([headings |-> MapV([commands |-> EmptyMap])]),
     MapV([headings |-> MapV([anchor_level |-> StrV(<<"2">>),
                              commands |-> MapV((5 :> StrV(<<"x">>)))])]),
     MapV([inline |-> MapV([texttt_escape_map |-> EmptyMap])]),
     MapV([parsing |-> MapV([strip_yaml_front_matter |-> BoolV(TRUE)])]),
     MapV([headings |-> StrV(<<"a">>)]),
     MapV([headings |-> MapV([anchor_level |-> StrV(<<"x">>)])]),
     MapV([callouts |-> MapV([environment_map |-> StrV(<<"q">>)])])>>

\* override mappings: every value has the type of the setting it names
Overrides ==
    <<NoneV, EmptyMap,
     MapV([lists |-> MapV([ordered_environment |-> StrV(<<"s", "t", "e", "p", "s">>)])]),
     MapV([headings |-> MapV([anchor_level |-> IntV(2)])]),
     MapV([headings |-> MapV([commands |-> MapV((5 :> StrV(<<"x">>)))])]),
     MapV([callouts |-> MapV([title_template |-> NoneV])]),
     MapV([parsing |-> MapV([strip_yaml_front_matter |-> BoolV(TRUE)])])>>

\* config.cfg is the configuration at hand; op, self, arg and result record
\* the last call; links counts the with_overrides calls that produced cfg
ConfigState(cfg, op, self, arg, result, links) ==
    [cfg |-> cfg, op |-> op, self |-> self, arg |-> arg, result |-> result,
     links |-> links]

\* ConversionConfig()
ConfigStart == ConfigState(ConversionConfig, "ConversionConfig", None, None,
                           Return(ConversionConfig), 0)

\* the configuration a call leaves at hand: the one it returned, or the
\* previous one when it raised
Kept(outcome) == IF outcome.raised THEN config.cfg ELSE outcome.value

\* ConversionConfig(headings=HeadingConfig(...), inline=InlineConfig(...)):
\* direct construction of the frozen dataclasses, no coercion
Construct ==
    \E anchor_level \in AnchorLevels, commands \in CommandMaps,
       texttt_escape_map \in EscapeMaps :
        LET headings == HeadingConfig(anchor_level, commands, <<"p", "a", "r", "a", "g", "r", "a", "p", "h">>)
            inline == [DefaultInlineConfig
                          EXCEPT !.texttt_escape_map = texttt_escape_map]
            built == [ConversionConfig EXCEPT !.headings = headings,
                                              !.inline = inline]
        IN  /\ config' = ConfigState(built, "ConversionConfig", None,
                                     <<headings, inline>>, Return(built), 0)
            /\ UNCHANGED <<renderVars, parserVars, registryVars, engineVars>>

\* ConversionConfig.from_dict(data)
FromDict ==
    \E n \in DOMAIN Dicts :
        LET data == Dicts[n]
            outcome == from_dict(data)
        IN  /\ config' = ConfigState(Kept(outcome), "from_dict", None, data,
                                     outcome,
                                     IF outcome.raised THEN config.links ELSE 0)
            /\ UNCHANGED <<renderVars, parserVars, registryVars, engineVars>>

\* cfg.to_dict()
ToDict ==
    /\ config' = ConfigState(config.cfg, "to_dict", config.cfg, None,
                             Return(to_dict(config.cfg)), config.links)
    /\ UNCHANGED <<renderVars, parserVars, registryVars, engineVars>>

\* cfg.with_overrides(overrides); the result is the configuration at hand
\* afterwards
WithOverrides ==
    \E n \in DOMAIN Overrides :
        LET overrides == Overrides[n]
            outcome == with_overrides(config.cfg, overrides)
        IN  /\ config.links < MaxOverrides
            /\ config' = ConfigState(Kept(outcome), "with_overrides",
                                     config.cfg, overrides, outcome,
                                     config.links + 1)
            /\ UNCHANGED <<renderVars, parserVars, registryVars, engineVars>>

\* cfg.headings.resolve_command(markdown_level)
ResolveCommand ==
    \E markdown_level \in Levels :
        /\ config' = ConfigState(config.cfg, "resolve_command", config.cfg,
                                 markdown_level,
                                 Return(resolve_command(config.cfg.headings,
                                                        markdown_level)),
                                 config.links)
        /\ UNCHANGED <<renderVars, parserVars, registryVars, engineVars>>
-----------------------------------------------------------------------------
(* Transforms and the registry (transforms.py, registry.py)                *)

\* A transform is a callable handed in by the caller; the model knows three
\* of them by name.  add_notice is the transform of the repository's tests;
\* the three do not commute with one another.
Transforms == {"add_notice", "drop_first", "reverse"}

RECURSIVE Reverse(_)
Reverse(s) == IF s = << >> THEN << >> ELSE Append(Reverse(Tail(s)), Head(s))

\* transform(current): the call of a transform on a document
Call(transform, document) ==
    CASE transform = "add_notice" ->
            Document(<<Paragraph(<<"N", "O", "T", "I", "C", "E">>)>> \o document.children)
      [] transform = "drop_first" ->
            Document(IF document.children = << >> THEN << >>
                     ELSE Tail(document.children))
      [] transform = "reverse" -> Document(Reverse(document.children))

\* apply_transforms with the transforms taken from the last one backwards
RECURSIVE apply_transforms_backwards(_, _)
apply_transforms_backwards(document, transforms) ==
    IF transforms = << >> THEN document
    ELSE apply_transforms_backwards(
             Call(transforms[Len(transforms)], document),
             SubSeq(transforms, 1, Len(transforms) - 1))

\* apply_transforms  (transforms.py 19-24): current starts as the document
\* and each round of the loop replaces it by transform(current)
RECURSIVE apply_transforms(_, _)
apply_transforms(document, transforms) ==
    IF transforms = << >> THEN document
    ELSE apply_transforms(Call(Head(transforms), document), Tail(transforms))

\* name in _TRANSFORMS
Registered(transforms, name) == name \in DOMAIN transforms

\* _TRANSFORMS[name] = transform on a dict
Store(transforms, name, transform) ==
    [key \in DOMAIN transforms \cup {name} |->
        IF key = name THEN transform ELSE transforms[key]]

\* register_transform that stores the transform whether or not the name is
\* taken
register_transform_always(transforms, name, transform, overwrite) ==
    [raised |-> FALSE, value |-> None,
     transforms |-> Store(transforms, name, transform)]

\* register_transform  (registry.py 14-18): the outcome and the registry
\* it leaves
register_transform(transforms, name, transform, overwrite) ==
    IF Registered(transforms, name) /\ ~overwrite
    THEN [raised |-> TRUE, kind |-> "KeyError", transforms |-> transforms]
    ELSE [raised |-> FALSE, value |-> None,
          transforms |-> Store(transforms, name, transform)]

\* get_transform  (registry.py 21-26)
get_transform(transforms, name) ==
    IF Registered(transforms, name) THEN Return(transforms[name])
    ELSE Raise("KeyError")

\* the code points of the characters of transform names
CodePoints ==
    ("-" :> 45) @@ ("a" :> 97) @@ ("b" :> 98) @@ ("n" :> 110) @@ ("t" :> 116)

\* a < b on strings
RECURSIVE StrLess(_, _)
StrLess(a, b) ==
    IF b = << >> THEN FALSE
    ELSE IF a = << >> THEN TRUE
    ELSE IF Head(a) # Head(b) THEN CodePoints[Head(a)] < CodePoints[Head(b)]
    ELSE StrLess(Tail(a), Tail(b))

\* sorted(keys)
RECURSIVE Sorted(_)
Sorted(keys) ==
    IF keys = {} THEN << >>
    ELSE LET least == CHOOSE k \in keys :
                          \A other \in keys \ {k} : StrLess(k, other)
         IN  <<least>> \o Sorted(keys \ {least})

\* list_transforms  (registry.py 29-31)
list_transforms(transforms) == Sorted(DOMAIN transforms)

\* resolve_transforms  (registry.py 34-36): the list comprehension calls
\* get_transform name by name, and the first KeyError ends it
RECURSIVE ResolveLoop(_, _, _)
ResolveLoop(transforms, names, resolved) ==
    IF names = << >> THEN Return(resolved)
    ELSE LET found == get_transform(transforms, Head(names))
         IN  IF found.raised THEN found
             ELSE ResolveLoop(transforms, Tail(names),
                              Append(resolved, found.value))

\* resolve_transforms that leaves unknown names out
RECURSIVE resolve_transforms_lenient(_, _)
resolve_transforms_lenient(transforms, names) ==
    IF names = << >> THEN Return(<< >>)
    ELSE LET rest == resolve_transforms_lenient(transforms, Tail(names)).value
         IN  IF Registered(transforms, Head(names))
             THEN Return(<<transforms[Head(names)]>> \o rest)
             ELSE Return(rest)

resolve_transforms(transforms, names) == ResolveLoop(transforms, names, << >>)

-----------------------------------------------------------------------------
(* The registry at work *)

\* resolve_transforms is given at most MaxNames names, apply_transforms at
\* most MaxTransforms transforms
MaxNames == 2
MaxTransforms == 2

\* the names transforms are registered under
Names == {<<"b">>, <<"a", "b">>}

SeqsUpTo(S, n) == UNION {[1..k -> S] : k \in 0..n}

\* the documents handed to apply_transforms
Documents ==
    {Document(<< >>),
     Document(<<Paragraph(<<"x">>)>>),
     Document(<<Paragraph(<<"x">>), CodeBlock(None, <<"y">>)>>)}

\* the record of a registry or pipeline call: the function, its arguments,
\* the registry before the call, and the outcome
RegistryCall(op, args, outcome) ==
    [op |-> op, args |-> args, before |-> _TRANSFORMS, result |-> outcome]

\* register_transform(name, transform, overwrite=...)
RegisterTransform ==
    \E name \in Names, transform \in Transforms, overwrite \in BOOLEAN :
        LET done == register_transform(_TRANSFORMS, name, transform, overwrite)
        IN  /\ _TRANSFORMS' = done.transforms
            /\ registry' = RegistryCall(
                   "register_transform",
                   [name |-> name, transform |-> transform,
                    overwrite |-> overwrite],
                   IF done.raised THEN Raise(done.kind) ELSE Return(None))
            /\ UNCHANGED <<renderVars, parserVars, configVars, engineVars>>

\* get_transform(name)
GetTransform ==
    \E name \in Names :
        /\ registry' = RegistryCall("get_transform", [name |-> name],
                                    get_transform(_TRANSFORMS, name))
        /\ UNCHANGED <<renderVars, _TRANSFORMS, parserVars, configVars, engineVars>>

\* list_transforms()
ListTransforms ==
    /\ registry' = RegistryCall("list_transforms", None,
                                Return(list_transforms(_TRANSFORMS)))
    /\ UNCHANGED <<renderVars, _TRANSFORMS, parserVars, configVars, engineVars>>

\* resolve_transforms(names)
ResolveTransforms ==
    \E names \in SeqsUpTo(Names, MaxNames) :
        /\ registry' = RegistryCall("resolve_transforms", [names |-> names],
                                    resolve_transforms(_TRANSFORMS, names))
        /\ UNCHANGED <<renderVars, _TRANSFORMS, parserVars, configVars, engineVars>>

\* apply_transforms(document, transforms)
ApplyTransforms ==
    \E document \in Documents,
       transforms \in SeqsUpTo(Transforms, MaxTransforms) :
        /\ registry' = RegistryCall(
               "apply_transforms",
               [document |-> document, transforms |-> transforms],
               Return(apply_transforms(document, transforms)))
        /\ UNCHANGED <<renderVars, _TRANSFORMS, parserVars, configVars, engineVars>>


-----------------------------------------------------------------------------
(* The configuration alone *)

ConfigInit ==
    /\ config = ConfigStart
    /\ rendered = [op |-> "none"]
    /\ stack = << >>
    /\ parsed = [called |-> FALSE, source |-> << >>]
    /\ _TRANSFORMS = << >>
    /\ registry = [op |-> "import"]
    /\ converters = << >>
    /\ conversion = << >>

ConfigNext ==
    \/ Construct
    \/ FromDict
    \/ ToDict
    \/ WithOverrides
    \/ ResolveCommand

SpecConfig == ConfigInit /\ [][ConfigNext]_vars

\* C8: rebuilding a configuration from its own dict projection gives the
\* configuration back, for every configuration the program can hold:
\* defaults, from_dict results, directly constructed sub-configs (empty
\* command or escape maps included) and results of with_overrides chains.
C8_RoundTrip ==
    from_dict(MapV(to_dict(config.cfg))) = Return(config.cfg)

\* the settings whose value is itself a mapping
MappingSettings == {"commands", "texttt_escape_map", "environment_map"}

\* whether an override mapping names a setting of a section
Named(overrides, section, setting) ==
    /\ section \in DOMAIN overrides.v
    /\ setting \in DOMAIN overrides.v[section].v

\* the value a named setting is to have: the override's value, merged key
\* by key into the old value when the setting is a mapping
Overridden(old, new, setting) ==
    IF setting \in MappingSettings
    THEN [key \in DOMAIN old \cup DOMAIN new.v |->
            IF key \in DOMAIN new.v THEN new.v[key].v ELSE old[key]]
    ELSE IF new.t = "none" THEN None ELSE new.v

\* C9: cfg.with_overrides(o) returns cfg itself when o is None or empty;
\* otherwise it returns a configuration where each setting named in o has
\* the override's value (mappings merged key by key) and each setting not
\* named in o has the value it has in cfg.
C9_WithOverrides ==
    config.op = "with_overrides" =>
        IF ~Truthy(config.arg) THEN config.result = Return(config.self)
        ELSE /\ ~config.result.raised
             /\ \A section \in DOMAIN config.self :
                  \A setting \in DOMAIN config.self[section] :
                    config.result.value[section][setting] =
                        IF Named(config.arg, section, setting)
                        THEN Overridden(config.self[section][setting],
                                        config.arg.v[section].v[setting],
                                        setting)
                        ELSE config.self[section][setting]

\* C10: resolve_command(markdown_level) returns the command configured at
\* key max(markdown_level - anchor_level + 1, 1), and the fallback command
\* when the command map has no such key.
C10_ResolveCommand ==
    config.op = "resolve_command" =>
        LET headings == config.self.headings
            relative == config.arg - headings.anchor_level + 1
            key == IF relative > 1 THEN relative ELSE 1
        IN  config.result =
                Return(IF key \in DOMAIN headings.commands
                       THEN headings.commands[key]
                       ELSE headings.fallback_command)

\* a heading shallower than the anchor resolved to the level-1 command
C10_Witness ==
    /\ config.op = "resolve_command"
    /\ config.arg < config.self.headings.anchor_level
    /\ 1 \in DOMAIN config.self.headings.commands
    /\ config.result = Return(config.self.headings.commands[1])

-----------------------------------------------------------------------------
(* The parser alone: calls of MarkdownParser.parse *)

\* parse is a pure function of its source: the source is drawn first, and
\* the call applies the parser to it
ParserInit ==
    /\ \E source \in Sources : parsed = [called |-> FALSE, source |-> source]
    /\ config = ConfigStart
    /\ rendered = [op |-> "none"]
    /\ stack = << >>
    /\ _TRANSFORMS = << >>
    /\ registry = [op |-> "import"]
    /\ converters = << >>
    /\ conversion = << >>

\* MarkdownParser.parse(source)  (parser.py 52-67)
Parse ==
    /\ ~parsed.called
    /\ parsed' = [called |-> TRUE, source |-> parsed.source,
                  result |-> parse(parsed.source)]
    /\ UNCHANGED <<stack, renderVars, configVars, registryVars, engineVars>>

ParserNext == Parse

SpecParser == ParserInit /\ [][ParserNext]_vars

\* the dedicated error of a line that opens one of the constructs without
\* matching the construct's pattern, "" for any other line
MalformedKind(line) ==
    IF StartsWith(line, FenceTicks) /\ ~_code_fence_pattern(line).ok
    THEN "InvalidCodeFenceError"
    ELSE IF StartsWith(line, CalloutOpen) /\ ~_callout_header_pattern(line).ok
    THEN "InvalidCalloutError"
    ELSE IF StartsWith(line, <<"#">>) /\ ~_heading_pattern(line).ok
    THEN "InvalidHeadingError"
    ELSE IF StartsWith(line, <<"<", "i", "m", "g">>) /\ ~_image_line_pattern(line).ok
    THEN "InvalidImageError"
    ELSE ""

\* C3: parse does not fall back silently on a malformed code fence, callout
\* header, heading or image tag: when the first line of the source is such
\* a line, parse raises the construct's dedicated error with the 1-based
\* line number and the offending line, and returns no Document.
C3_MalformedRaises ==
    LET lines == SplitLines(parsed.source)
    IN  (/\ parsed.called
         /\ lines # << >>
         /\ MalformedKind(lines[1]) # "")
        => parsed.result =
             RaiseParsing(MalformedKind(lines[1]), 1, lines[1])

-----------------------------------------------------------------------------
(* The registry alone *)

RegistryInit ==
    /\ _TRANSFORMS = << >>
    /\ registry = [op |-> "import"]
    /\ parsed = [called |-> FALSE, source |-> << >>]
    /\ config = ConfigStart
    /\ rendered = [op |-> "none"]
    /\ stack = << >>
    /\ converters = << >>
    /\ conversion = << >>

RegistryNext ==
    \/ RegisterTransform
    \/ GetTransform
    \/ ListTransforms
    \/ ResolveTransforms
    \/ ApplyTransforms

SpecRegistry == RegistryInit /\ [][RegistryNext]_vars

\* C5: register_transform with overwrite=False on a registered name raises
\* KeyError and leaves the registry as it was; any other register_transform
\* call leaves the name mapped to the transform given and the other names
\* as they were.  No step of any operation removes a name, so the list
\* list_transforms returns only grows.
C5_RegisterTransform ==
    /\ [](registry.op = "register_transform" =>
            IF /\ registry.args.name \in DOMAIN registry.before
               /\ ~registry.args.overwrite
            THEN /\ registry.result = Raise("KeyError")
                 /\ _TRANSFORMS = registry.before
            ELSE /\ registry.result = Return(None)
                 /\ DOMAIN _TRANSFORMS =
                        DOMAIN registry.before \cup {registry.args.name}
                 /\ \A name \in DOMAIN _TRANSFORMS :
                        _TRANSFORMS[name] =
                            IF name = registry.args.name
                            THEN registry.args.transform
                            ELSE registry.before[name])
    /\ [][\A k \in 1..Len(list_transforms(_TRANSFORMS)) :
            \E m \in 1..Len(list_transforms(_TRANSFORMS')) :
                list_transforms(_TRANSFORMS')[m] =
                    list_transforms(_TRANSFORMS)[k]]_vars

\* a registration without overwrite was refused because the name was taken
C5_Witness ==
    /\ registry.op = "register_transform"
    /\ registry.args.name \in DOMAIN registry.before
    /\ ~registry.args.overwrite
    /\ registry.result = Raise("KeyError")
    /\ registry.before[registry.args.name] # registry.args.transform

\* C6: resolve_transforms(names) returns the transform registered under
\* each name, in the order of names and once per occurrence; when a name is
\* not registered it raises KeyError and returns nothing.  get_transform of
\* a name that is not registered raises KeyError.  Neither changes the
\* registry.
C6_ResolveTransforms ==
    /\ registry.op = "resolve_transforms" =>
        /\ _TRANSFORMS = registry.before
        /\ IF \A k \in DOMAIN registry.args.names :
                  registry.args.names[k] \in DOMAIN registry.before
           THEN registry.result =
                    Return([k \in DOMAIN registry.args.names |->
                               registry.before[registry.args.names[k]]])
           ELSE registry.result = Raise("KeyError")
    /\ registry.op = "get_transform" =>
        /\ _TRANSFORMS = registry.before
        /\ IF registry.args.name \in DOMAIN registry.before
           THEN registry.result =
                    Return(registry.before[registry.args.name])
           ELSE registry.result = Raise("KeyError")

\* two names were resolved, the unregistered one after a registered one
C6_Witness ==
    /\ registry.op = "resolve_transforms"
    /\ Len(registry.args.names) = 2
    /\ registry.args.names[1] \in DOMAIN registry.before
    /\ registry.args.names[2] \notin DOMAIN registry.before
    /\ registry.result = Raise("KeyError")

\* tn(...t2(t1(doc))...): the last transform is applied to what the ones
\* before it made of the document
RECURSIVE Composition(_, _)
Composition(doc, ts) ==
    IF ts = << >> THEN doc
    ELSE Call(ts[Len(ts)], Composition(doc, SubSeq(ts, 1, Len(ts) - 1)))

\* C7: apply_transforms(doc, [t1, ..., tn]) is tn(...t2(t1(doc))...), and
\* doc itself when the sequence is empty.
C7_ApplyTransforms ==
    registry.op = "apply_transforms" =>
        registry.result =
            Return(Composition(registry.args.document,
                               registry.args.transforms))

\* two transforms were applied whose order matters for the document
C7_Witness ==
    /\ registry.op = "apply_transforms"
    /\ Len(registry.args.transforms) = 2
    /\ registry.result.value #
           Call(registry.args.transforms[1],
                Call(registry.args.transforms[2], registry.args.document))

-----------------------------------------------------------------------------
(* Rendering: str.format and the methods of the sub-configs the generator   *)
(* calls                                                                    *)

\* index of the last occurrence of character c in s, 0 when absent
RECURSIVE LastIndexOf(_, _)
LastIndexOf(s, c) ==
    IF s = << >> THEN 0
    ELSE IF s[Len(s)] = c THEN Len(s)
    ELSE LastIndexOf(Take(s, Len(s) - 1), c)

\* str.replace(old, new) for a non-empty old
RECURSIVE Replace(_, _, _)
Replace(s, old, new) ==
    IF s = << >> THEN << >>
    ELSE IF StartsWith(s, old) THEN new \o Replace(Drop(s, Len(old)), old, new)
    ELSE <<Head(s)>> \o Replace(Tail(s), old, new)

\* whether old occurs in s
RECURSIVE Contains(_, _)
Contains(s, old) ==
    IF StartsWith(s, old) THEN TRUE
    ELSE IF s = << >> THEN FALSE
    ELSE Contains(Tail(s), old)

LowerLetters == <<"a", "b", "c", "d", "e", "f", "g", "h", "i", "j", "k", "l", "m", "n", "o", "p", "q", "r", "s", "t", "u", "v", "w", "x", "y", "z">>
UpperLetters == <<"A", "B", "C", "D", "E", "F", "G", "H", "I", "J", "K", "L", "M", "N", "O", "P", "Q", "R", "S", "T", "U", "V", "W", "X", "Y", "Z">>

\* str.lower() and str.upper() over the letters of the model
ToLower(s) ==
    [k \in 1..Len(s) |->
        IF s[k] \in Upper THEN LowerLetters[IndexOf(UpperLetters, s[k])]
        ELSE s[k]]
ToUpper(s) ==
    [k \in 1..Len(s) |->
        IF s[k] \in Lower THEN UpperLetters[IndexOf(LowerLetters, s[k])]
        ELSE s[k]]

\* the text so far followed by the rest of the rendering, or the rest's error
Prepend(text, rest) ==
    IF rest.raised THEN rest ELSE Return(text \o rest.value)

\* number of characters of s before its first brace
RECURSIVE CountLiteral(_)
CountLiteral(s) ==
    IF s = << >> \/ Head(s) \in {"{", "}"} THEN 0
    ELSE 1 + CountLiteral(Tail(s))

\* template.format(**fields): "{{" and "}}" are literal braces, "{name}" is
\* replaced by the field of that name; a lone brace raises ValueError, an
\* unnamed field IndexError and an unknown name KeyError, at the first
\* offending place from the left
RECURSIVE Format(_, _)
Format(template, fields) ==
    IF template = << >> THEN Return(<< >>)
    ELSE IF CountLiteral(template) > 0
    THEN Prepend(Take(template, CountLiteral(template)),
                 Format(Drop(template, CountLiteral(template)), fields))
    ELSE IF StartsWith(template, <<"{", "{">>)
    THEN Prepend(<<"{">>, Format(Drop(template, 2), fields))
    ELSE IF StartsWith(template, <<"}", "}">>)
    THEN Prepend(<<"}">>, Format(Drop(template, 2), fields))
    ELSE IF Head(template) = "}" THEN Raise("ValueError")
    ELSE LET close == IndexOf(template, "}")
             name == SubSeq(template, 2, close - 1)
         IN  IF close = 0 \/ Contains(name, <<"{">>) THEN Raise("ValueError")
             ELSE IF name = << >> THEN Raise("IndexError")
             ELSE IF name \notin DOMAIN fields THEN Raise("KeyError")
             ELSE Prepend(fields[name], Format(Drop(template, close), fields))

\* slugify  (labels.py 8-15), for a non-empty separator
RECURSIVE Collapse(_, _)
Collapse(normalized, separator) ==
    IF Contains(normalized, separator \o separator)
    THEN Collapse(Replace(normalized, separator \o separator, separator),
                  separator)
    ELSE normalized

slugify(text, separator) ==
    LET normalized == ToLower(Strip(text))
        replaced == Flatten([k \in 1..Len(normalized) |->
                        IF normalized[k] \in Letters \cup Digits
                        THEN <<normalized[k]>> ELSE separator])
        separators == {separator[k] : k \in 1..Len(separator)}
    IN  RStripSet(LStripSet(Collapse(replaced, separator), separators),
                  separators)

\* CodeBlockConfig.begin  (config.py 180-186)
begin(code_blocks, language) ==
    LET plain == <<"\\", "b", "e", "g", "i", "n", "{">> \o code_blocks.environment \o <<"}">>
        options == Format(code_blocks.options_template,
                          <<"l", "a", "n", "g", "u", "a", "g", "e">> :> (IF language = None THEN << >>
                                          ELSE language))
    IN  IF code_blocks.options_template \in {None, << >>} THEN Return(plain)
        ELSE IF options.raised THEN options
        ELSE IF Strip(options.value) = << >> THEN Return(plain)
        ELSE Return(plain \o <<"[">> \o options.value \o <<"]">>)

\* CodeBlockConfig.end  (config.py 188-189)
end(code_blocks) == <<"\\", "e", "n", "d", "{">> \o code_blocks.environment \o <<"}">>

\* CalloutConfig.normalize_type  (config.py 201-206)
normalize_type(callouts, callout_type) ==
    IF callouts.type_normalization = <<"l", "o", "w", "e", "r">> THEN ToLower(callout_type)
    ELSE IF callouts.type_normalization = <<"u", "p", "p", "e", "r">> THEN ToUpper(callout_type)
    ELSE callout_type

\* resolve_environment with the two lookups exchanged: the type as given
\* is looked up before the normalized one
resolve_environment_raw_first(callouts, callout_type) ==
    LET normalized == normalize_type(callouts, callout_type)
    IN  IF callout_type \in DOMAIN callouts.environment_map
        THEN Return(callouts.environment_map[callout_type])
        ELSE IF normalized \in DOMAIN callouts.environment_map
        THEN Return(callouts.environment_map[normalized])
        ELSE Format(callouts.default_environment_template,
                    <<"t", "y", "p", "e">> :> normalized)

\* CalloutConfig.resolve_environment  (config.py 208-214)
resolve_environment(callouts, callout_type) ==
    LET normalized == normalize_type(callouts, callout_type)
    IN  IF normalized \in DOMAIN callouts.environment_map
        THEN Return(callouts.environment_map[normalized])
        ELSE IF callout_type \in DOMAIN callouts.environment_map
        THEN Return(callouts.environment_map[callout_type])
        ELSE Format(callouts.default_environment_template,
                    <<"t", "y", "p", "e">> :> normalized)

\* MathConfig.format_block  (config.py 240-243): the brackets style writes two
\* backslashes before each bracket
MathFormatBlock(math, content) ==
    IF math.block_style = <<"b", "r", "a", "c", "k", "e", "t", "s">>
    THEN <<"\\", "\\", "[">> \o content \o <<"\\", "\\", "]">>
    ELSE <<"$", "$">> \o content \o <<"$", "$">>

\* ImageConfig.format_block  (config.py 142-162); validate_paths only warns
\* about a missing file and leaves the rendering as it is
ImageFormatBlock(images, source_path, width_px) ==
    LET include_command == IF StartsWith(images.include_command, <<"\\">>)
                           THEN images.include_command
                           ELSE <<"\\">> \o images.include_command
    IN  Format(images.block_template,
               (<<"i", "n", "c", "l", "u", "d", "e", "_", "c", "o", "m", "m", "a", "n", "d">> :> include_command)
               @@ (<<"w", "i", "d", "t", "h">> :> IntToStr(width_px))
               @@ (<<"u", "n", "i", "t">> :> images.width_unit)
               @@ (<<"p", "a", "t", "h", "_", "p", "r", "e", "f", "i", "x">> :> RStripSet(images.path_prefix, {"/"}))
               @@ (<<"s", "o", "u", "r", "c", "e">> :> source_path)
               @@ (<<"p", "a", "t", "h", "_", "s", "u", "f", "f", "i", "x">> :> images.path_suffix))
-----------------------------------------------------------------------------
(* InlineTransformer and LaTeXGenerator  (inline.py, generator.py)          *)

\* InlineTransformer(config, footnotes_map)  (inline.py 31-37)
InlineTransformer(cfg, footnotes_map) ==
    [config |-> cfg, footnotes_map |-> footnotes_map]

\* LaTeXGenerator(config, inline_transformer)  (generator.py 29-35)
LaTeXGenerator(cfg, inline_transformer) ==
    [config |-> cfg, inline |-> inline_transformer]

\* InlineTransformer.convert  (inline.py 39-59): whatever the text, the call
\* reaches _convert_non_code for the segment after the last code span
\* (inline.py 58), and that reads config.inline.custom_markers (inline.py 66,
\* 165), after config.inline.inline_math_template for each math span of the
\* segment (inline.py 63, 138, 157).  InlineConfig (config.py 60-70) declares
\* neither attribute and is frozen, so the read raises AttributeError.
convert(inline, text) == Raise("AttributeError")

\* re.search(r"\{([^{}]+)\}\s*$", cell): the positions of the braces of the
\* match, open = 0 when there is none
CellSpanMatch(cell) ==
    LET trimmed == RStrip(cell)
        close == Len(trimmed)
        open == LastIndexOf(trimmed, "{")
    IN  IF /\ trimmed # << >>
           /\ trimmed[close] = "}"
           /\ open > 0
           /\ open + 1 < close
           /\ ~Contains(SubSeq(trimmed, open + 1, close - 1), <<"}">>)
        THEN [open |-> open, close |-> close]
        ELSE [open |-> 0, close |-> 0]

\* the loop over the entries of a span annotation  (generator.py 197-205)
RECURSIVE SpanProps(_, _, _, _)
SpanProps(entries, k, col_span, row_span) ==
    IF k > Len(entries)
    THEN Return([col_span |-> col_span, row_span |-> row_span])
    ELSE LET entry == Strip(entries[k])
             eq == IndexOf(entry, "=")
             key == Strip(Take(entry, eq - 1))
             value == StrV(Strip(Drop(entry, eq)))
         IN  IF eq = 0 THEN SpanProps(entries, k + 1, col_span, row_span)
             ELSE IF key \in {<<"c", "o", "l">>, <<"r", "o", "w">>} /\ IntError(value) # ""
             THEN Raise(IntError(value))
             ELSE SpanProps(entries, k + 1,
                      IF key = <<"c", "o", "l">> THEN IntOf(value) ELSE col_span,
                      IF key = <<"r", "o", "w">> THEN IntOf(value) ELSE row_span)

\* the cell without its annotation, and the spans the annotation gives
\* (generator.py 206-207)
CellSpan(cell, open, spans) ==
    IF spans.raised THEN spans
    ELSE Return([cell |-> RStrip(Take(cell, open - 1)),
                 col_span |-> spans.value.col_span,
                 row_span |-> spans.value.row_span])

\* the outcome of _parse_cell_span for a match of the annotation pattern
CellSpanOf(cell, match) ==
    IF match.open = 0
    THEN Return([cell |-> cell, col_span |-> 1, row_span |-> 1])
    ELSE CellSpan(cell, match.open,
             SpanProps(Split(SubSeq(cell, match.open + 1, match.close - 1),
                             ","), 1, 1, 1))

\* _parse_cell_span  (generator.py 191-207)
_parse_cell_span(cell) == CellSpanOf(cell, CellSpanMatch(cell))

\* a block that is kept: block.strip() != ""
NonBlank(block) == Strip(block) # << >>

\* LaTeXGenerator._make_label  (generator.py 183-188)
_make_label(generator, title) ==
    LET labels == generator.config.labels
        normalized == slugify(title, labels.label_separator)
    IN  IF labels.label_prefix # << >>
        THEN labels.label_prefix \o labels.label_separator \o normalized
        ELSE normalized

\* LaTeXGenerator.visit_section  (generator.py 43-52)
visit_section(generator, node) ==
    LET command == resolve_command(generator.config.headings, node.level)
        title == convert(generator.inline, node.title)
        section == <<"\\">> \o command \o <<"{">> \o title.value \o <<"}">>
        label_cmd == Format(generator.config.labels.label_template,
                            <<"l", "a", "b", "e", "l">> :> _make_label(generator, node.title))
    IN  IF title.raised THEN title
        ELSE IF generator.config.labels.auto_label_headings
        THEN Prepend(section \o <<NL>>, label_cmd)
        ELSE Return(section)

\* LaTeXGenerator.visit_paragraph  (generator.py 54-56)
visit_paragraph(generator, node) == convert(generator.inline, node.content)

\* LaTeXGenerator.visit_code_block  (generator.py 105-109)
visit_code_block(generator, node) ==
    LET opening == begin(generator.config.code_blocks, node.language)
    IN  IF opening.raised THEN opening
        ELSE Return(opening.value \o <<NL>> \o node.content \o <<NL>>
                    \o end(generator.config.code_blocks))

\* LaTeXGenerator.visit_horizontal_rule  (generator.py 111-113): reads
\* config.horizontal_rule, an attribute ConversionConfig (config.py 274-290)
\* does not declare, so the read raises AttributeError
visit_horizontal_rule(generator, node) == Raise("AttributeError")

\* LaTeXGenerator.visit_math_block  (generator.py 115-117)
visit_math_block(generator, node) ==
    Return(MathFormatBlock(generator.config.math, node.content))

\* LaTeXGenerator.visit_image  (generator.py 132-134)
visit_image(generator, node) ==
    ImageFormatBlock(generator.config.images, node.source_path, node.width_px)

\* " & ".join(self._inline.convert(c) for c in cells)  (generator.py 139)
RECURSIVE ConvertAll(_, _, _, _)
ConvertAll(inline, texts, k, converted) ==
    IF k > Len(texts) THEN Return(converted)
    ELSE LET latex == convert(inline, texts[k])
         IN  IF latex.raised THEN latex
             ELSE ConvertAll(inline, texts, k + 1,
                             Append(converted, latex.value))

\* the cells of one table row  (generator.py 142-159); idx counts from 1
RECURSIVE RowCells(_, _, _, _)

\* a converted cell in its multirow and multicolumn commands
\* (generator.py 148-155)
CellLatex(tables, span, latex) ==
    LET command == IF StartsWith(tables.multirow_command, <<"\\">>)
                   THEN tables.multirow_command
                   ELSE <<"\\">> \o tables.multirow_command
        rowed == IF span.row_span > 1
                 THEN command \o <<"{">> \o IntToStr(span.row_span)
                      \o <<"}", "{", "*", "}", "{">> \o latex \o <<"}">>
                 ELSE latex
    IN  IF span.col_span > 1
        THEN <<"\\", "m", "u", "l", "t", "i", "c", "o", "l", "u", "m", "n", "{">>
             \o IntToStr(span.col_span) \o <<"}", "{">>
             \o tables.multicolumn_align \o <<"}", "{">> \o rowed \o <<"}">>
        ELSE rowed

RowConverted(generator, row, idx, rendered_cells, span, converted) ==
    IF converted.raised THEN converted
    ELSE RowCells(generator, row,
                  IF span.col_span > 1 THEN idx + span.col_span ELSE idx + 1,
                  Append(rendered_cells,
                         CellLatex(generator.config.tables, span,
                                   converted.value)))

RowSpanned(generator, row, idx, rendered_cells, span) ==
    IF span.raised THEN span
    ELSE RowConverted(generator, row, idx, rendered_cells, span.value,
                      convert(generator.inline, span.value.cell))

RowCells(generator, row, idx, rendered_cells) ==
    IF idx > Len(row) THEN Return(rendered_cells)
    ELSE RowSpanned(generator, row, idx, rendered_cells,
                    _parse_cell_span(row[idx]))

\* the body lines of a table  (generator.py 140-161)
RECURSIVE BodyLines(_, _, _, _)

BodyLine(generator, rows, k, body_lines, cells) ==
    IF cells.raised THEN cells
    ELSE BodyLines(generator, rows, k + 1,
             Append(body_lines,
                    Join(cells.value, <<" ", "&", " ">>) \o <<" ", "\\", "\\">>))

BodyLines(generator, rows, k, body_lines) ==
    IF k > Len(rows) THEN Return(body_lines)
    ELSE BodyLine(generator, rows, k, body_lines,
                  RowCells(generator, rows[k], 1, << >>))

\* the tabular environment around the header and the body
\* (generator.py 163-181)
TableOf(tables, col_spec, header_cells, body_lines) ==
    LET opening == <<"\\", "b", "e", "g", "i", "n", "{">> \o tables.environment
                   \o <<"}", "{">> \o col_spec \o <<"}", NL>>
        closing == <<"\\", "e", "n", "d", "{">> \o tables.environment \o <<"}">>
        hline == <<"\\", "h", "l", "i", "n", "e", NL>>
        header_line == header_cells \o <<" ", "\\", "\\", NL>>
    IN  IF tables.include_hlines
        THEN opening \o hline \o header_line \o hline
             \o Join(body_lines, <<NL>>) \o <<NL>> \o hline \o closing
        ELSE opening \o header_line \o Join(body_lines, <<NL>>) \o <<NL>>
             \o closing

TableBody(generator, node, header, body_lines) ==
    IF body_lines.raised THEN body_lines
    ELSE Return(TableOf(generator.config.tables,
                        Flatten([k \in 1..Len(node.alignments) |->
                                    <<node.alignments[k]>>]),
                        Join(header, <<" ", "&", " ">>), body_lines.value))

TableHeader(generator, node, header) ==
    IF header.raised THEN header
    ELSE TableBody(generator, node, header.value,
                   BodyLines(generator, node.rows, 1, << >>))

\* LaTeXGenerator.visit_table  (generator.py 136-181): the header cells are
\* converted before the rows
visit_table(generator, node) ==
    TableHeader(generator, node,
                ConvertAll(generator.inline, node.header, 1, << >>))

\* Node.accept  (nodes.py): double dispatch to the visitor's method
RECURSIVE accept(_, _)
RECURSIVE AcceptAll(_, _, _, _)
RECURSIVE ItemSegments(_, _, _, _, _)

\* [child.accept(self) for child in nodes], ended by the first child that
\* raises  (generator.py 39, 65, 121)
AcceptNext(nodes, k, generator, blocks, block) ==
    IF block.raised THEN block
    ELSE AcceptAll(nodes, k + 1, generator, Append(blocks, block.value))

AcceptAll(nodes, k, generator, blocks) ==
    IF k > Len(nodes) THEN Return(blocks)
    ELSE AcceptNext(nodes, k, generator, blocks, accept(nodes[k], generator))

\* the blocks of a document joined  (generator.py 40-41)
DocumentOf(blocks) ==
    IF blocks.raised THEN blocks
    ELSE Return(Join(SelectSeq(blocks.value, NonBlank), <<NL, NL>>))

\* LaTeXGenerator.visit_document  (generator.py 37-41); a node is never falsy
visit_document(generator, node) ==
    DocumentOf(AcceptAll(node.children, 1, generator, << >>))

\* the environment around the items of a list  (generator.py 60-67)
ListOf(generator, node, items) ==
    LET env == IF node.ordered
               THEN generator.config.lists.ordered_environment
               ELSE generator.config.lists.unordered_environment
    IN  IF items.raised THEN items
        ELSE Return(<<"\\", "b", "e", "g", "i", "n", "{">> \o env \o <<"}", NL>> \o Join(items.value, <<NL>>)
                    \o <<NL, "\\", "e", "n", "d", "{">> \o env \o <<"}">>)

\* LaTeXGenerator.visit_list  (generator.py 58-67)
visit_list(generator, node) ==
    ListOf(generator, node, AcceptAll(node.items, 1, generator, << >>))

\* segments.append(("text", "\n".join(text_parts).strip())) when text_parts
\* is not empty  (generator.py 78-80, 83-84)
Flush(segments, text_parts) ==
    IF text_parts = << >> THEN segments
    ELSE Append(segments,
                [kind |-> "text", value |-> Strip(Join(text_parts, <<NL>>))])

ItemText(generator, content, k, segments, text_parts, text) ==
    IF text.raised THEN text
    ELSE ItemSegments(generator, content, k + 1, segments,
                      Append(text_parts, text.value))

ItemBlock(generator, content, k, segments, block) ==
    IF block.raised THEN block
    ELSE ItemSegments(generator, content, k + 1,
                      Append(segments,
                             [kind |-> "block", value |-> block.value]),
                      << >>)

\* the loop of visit_list_item over node.content  (generator.py 74-84)
ItemSegments(generator, content, k, segments, text_parts) ==
    IF k > Len(content) THEN Return(Flush(segments, text_parts))
    ELSE IF content[k].type = "Paragraph"
    THEN ItemText(generator, content, k, segments, text_parts,
                  convert(generator.inline, content[k].content))
    ELSE ItemBlock(generator, content, k, Flush(segments, text_parts),
                   accept(content[k], generator))

\* the lines of a list item from its segments  (generator.py 86-103)
ItemOf(segments) ==
    LET first == segments.value[1]
        opening == IF first.kind = "text"
                   THEN IF first.value # << >>
                        THEN <<<<"\\", "i", "t", "e", "m", " ">> \o first.value>>
                        ELSE <<<<"\\", "i", "t", "e", "m">>>>
                   ELSE <<<<"\\", "i", "t", "e", "m">>, first.value>>
        others == [k \in 1..(Len(segments.value) - 1) |->
                      segments.value[k + 1].value]
    IN  IF segments.raised THEN segments
        ELSE IF segments.value = << >> THEN Return(<<"\\", "i", "t", "e", "m">>)
        ELSE Return(Join(opening \o others, <<NL>>))

\* LaTeXGenerator.visit_list_item  (generator.py 69-103)
visit_list_item(generator, node) ==
    ItemOf(ItemSegments(generator, node.content, 1, << >>, << >>))

\* the environment around the body of a callout  (generator.py 122-130)
CalloutOf(generator, node, body_blocks) ==
    LET callouts == generator.config.callouts
        body == Join(SelectSeq(body_blocks.value, NonBlank), <<NL, NL>>)
        environment == resolve_environment(callouts, node.callout_type)
        title == IF node.title \notin {None, << >>}
                 THEN convert(generator.inline, node.title) ELSE Return(None)
        title_suffix == Format(callouts.title_template,
                               <<"t", "i", "t", "l", "e">> :> title.value)
        opening == <<"\\", "b", "e", "g", "i", "n", "{">> \o environment.value \o <<"}">>
        closing == <<NL>> \o body \o <<NL, "\\", "e", "n", "d", "{">> \o environment.value \o <<"}">>
    IN  IF body_blocks.raised THEN body_blocks
        ELSE IF environment.raised THEN environment
        ELSE IF title.raised THEN title
        ELSE IF title.value \notin {None, << >>}
                /\ callouts.title_template # None
        THEN IF title_suffix.raised THEN title_suffix
             ELSE Return(opening \o title_suffix.value \o closing)
        ELSE Return(opening \o closing)

\* LaTeXGenerator.visit_callout  (generator.py 119-130)
visit_callout(generator, node) ==
    CalloutOf(generator, node,
              AcceptAll(node.children, 1, generator, << >>))

accept(node, generator) ==
    CASE node.type = "Document" -> visit_document(generator, node)
      [] node.type = "Section" -> visit_section(generator, node)
      [] node.type = "Paragraph" -> visit_paragraph(generator, node)
      [] node.type = "List" -> visit_list(generator, node)
      [] node.type = "ListItem" -> visit_list_item(generator, node)
      [] node.type = "CodeBlock" -> visit_code_block(generator, node)
      [] node.type = "HorizontalRule" -> visit_horizontal_rule(generator, node)
      [] node.type = "MathBlock" -> visit_math_block(generator, node)
      [] node.type = "Callout" -> visit_callout(generator, node)
      [] node.type = "Image" -> visit_image(generator, node)
      [] node.type = "Table" -> visit_table(generator, node)
-----------------------------------------------------------------------------
(* The conversion engine  (engine.py)                                       *)

\* index of the first occurrence of old in s, 0 when absent
RECURSIVE Find(_, _)
Find(s, old) ==
    IF StartsWith(s, old) THEN 1
    ELSE IF s = << >> THEN 0
    ELSE LET r == Find(Tail(s), old) IN IF r = 0 THEN 0 ELSE r + 1

\* index of the first line from k on whose strip() is "---", 0 when none
RECURSIVE ClosingLine(_, _)
ClosingLine(lines, k) ==
    IF k > Len(lines) THEN 0
    ELSE IF Strip(lines[k]) = <<"-", "-", "-">> THEN k
    ELSE ClosingLine(lines, k + 1)

\* _strip_yaml_front_matter  (engine.py 76-85)
_strip_yaml_front_matter(source) ==
    LET lines == SplitLines(source)
        closing == ClosingLine(lines, 2)
    IN  IF lines = << >> THEN source
        ELSE IF Strip(lines[1]) # <<"-", "-", "-">> THEN source
        ELSE IF closing = 0 THEN source
        ELSE LStripSet(Join(Drop(lines, closing), <<NL>>), {NL})

\* line.startswith("[^") and "]: " in line  (engine.py 97, 104)
IsFootnoteDefinition(line) ==
    StartsWith(line, <<"[", "^">>) /\ Contains(line, <<"]", ":", " ">>)

\* the lines that continue a footnote  (engine.py 102-114)
RECURSIVE FootnoteContent(_, _, _)
FootnoteContent(lines, i, content_lines) ==
    IF i > Len(lines) \/ IsFootnoteDefinition(lines[i])
    THEN [content_lines |-> content_lines, i |-> i]
    ELSE IF Strip(lines[i]) = << >>
    THEN FootnoteContent(lines, i + 1, Append(content_lines, << >>))
    ELSE IF StartsWith(lines[i], <<" ", " ", " ", " ">>) \/ StartsWith(lines[i], <<"\t">>)
    THEN FootnoteContent(lines, i + 1, Append(content_lines, Strip(lines[i])))
    ELSE [content_lines |-> content_lines, i |-> i]

\* the loop of _extract_footnotes  (engine.py 95-118)
RECURSIVE FootnoteLoop(_, _, _, _)
FootnoteLoop(lines, i, output_lines, footnotes) ==
    IF i > Len(lines)
    THEN [source |-> Join(output_lines, <<NL>>), footnotes |-> footnotes]
    ELSE IF IsFootnoteDefinition(lines[i])
    THEN LET at == Find(lines[i], <<"]", ":", " ">>)
             key == Drop(Take(lines[i], at - 1), 2)
             rest == Drop(lines[i], at + 2)
             body == FootnoteContent(lines, i + 1, <<RStrip(rest)>>)
         IN  FootnoteLoop(lines, body.i, output_lines,
                 Store(footnotes, key,
                       Strip(Join(body.content_lines, <<NL>>))))
    ELSE FootnoteLoop(lines, i + 1, Append(output_lines, lines[i]), footnotes)

\* _extract_footnotes left out: no line is taken from the source
_extract_footnotes_skipped(source) ==
    [source |-> source, footnotes |-> << >>]

\* _extract_footnotes  (engine.py 88-119): the source without its footnote
\* definitions, and the footnotes by key
_extract_footnotes(source) ==
    LET lines == SplitLines(source)
    IN  IF lines = << >> THEN [source |-> source, footnotes |-> << >>]
        ELSE FootnoteLoop(lines, 1, << >>, << >>)

\* MarkdownToLaTeXConverter(config=..., transforms=..., transform_names=...)
\* (engine.py 18-31) with the registry as it is at the call; a missing list
\* is << >>.  built keeps the arguments of the call.
MarkdownToLaTeXConverter(cfg, transforms, transform_names, registered) ==
    LET resolved == resolve_transforms(registered, transform_names)
        self == [config |-> cfg,
                 generator |-> LaTeXGenerator(cfg,
                                   InlineTransformer(cfg, << >>)),
                 transforms |-> transforms,
                 built |-> [transforms |-> transforms,
                            transform_names |-> transform_names]]
    IN  IF transform_names = << >> THEN Return(self)
        ELSE IF resolved.raised THEN resolved
        ELSE Return([self EXCEPT
                        !.transforms = transforms \o resolved.value])

\* the transforms of a converter looked up in the registry again at each
\* conversion
_transforms_resolved_late(self) ==
    self.built.transforms
        \o resolve_transforms(_TRANSFORMS, self.built.transform_names).value

\* self._transforms as convert_string reads it  (engine.py 61-62)
_transforms(self) == self.transforms

\* MarkdownToLaTeXConverter.convert_string  (engine.py 33-63), stage by
\* stage: the result of each stage that ran, and the outcome of the call.
\* reached counts the stages whose result is there: 0 when the overrides
\* were refused, 3 when the parser raised, 5 when transforms and generator
\* ran.

\* ast.accept(generator)  (engine.py 63)
AfterTransforms(cfg, stripped, extracted, generator, ast, transformed) ==
    [reached |-> 5, config |-> cfg, stripped |-> stripped,
     parser_input |-> extracted.source, footnotes |-> extracted.footnotes,
     ast |-> ast, transformed |-> transformed,
     result |-> accept(transformed, generator)]

\* apply_transforms when the converter has transforms  (engine.py 61-62)
AfterParse(self, cfg, stripped, extracted, generator, ast) ==
    IF ast.raised
    THEN [reached |-> 3, config |-> cfg, stripped |-> stripped,
          parser_input |-> extracted.source,
          footnotes |-> extracted.footnotes, result |-> ast]
    ELSE AfterTransforms(cfg, stripped, extracted, generator, ast.value,
             IF _transforms(self) # << >>
             THEN apply_transforms(ast.value, _transforms(self))
             ELSE ast.value)

\* the generator of the call, and the parse  (engine.py 55-60)
AfterFootnotes(self, overrides, cfg, stripped, extracted) ==
    AfterParse(self, cfg, stripped, extracted,
               IF Truthy(overrides) \/ DOMAIN extracted.footnotes # {}
               THEN LaTeXGenerator(cfg,
                        InlineTransformer(cfg, extracted.footnotes))
               ELSE self.generator,
               parse(extracted.source))

\* source, footnotes = _extract_footnotes(source)  (engine.py 54)
AfterStrip(self, overrides, cfg, stripped) ==
    AfterFootnotes(self, overrides, cfg, stripped,
                   _extract_footnotes(stripped))

\* the front-matter strip under the merged configuration  (engine.py 52-53)
AfterOverrides(self, source, overrides, effective) ==
    IF effective.raised THEN [reached |-> 0, result |-> effective]
    ELSE AfterStrip(self, overrides, effective.value,
                    IF effective.value.parsing.strip_yaml_front_matter
                    THEN _strip_yaml_front_matter(source) ELSE source)

\* the configuration of the call  (engine.py 48-51)
Stages(self, source, overrides) ==
    AfterOverrides(self, source, overrides,
                   IF Truthy(overrides)
                   THEN with_overrides(self.config, overrides)
                   ELSE Return(self.config))

\* convert_string(source, config, overrides)  (engine.py 66-73): a converter
\* without transforms, built for the call
convert_string(source, cfg, overrides) ==
    Stages(MarkdownToLaTeXConverter(cfg, << >>, << >>, _TRANSFORMS).value,
           source, overrides).result
-----------------------------------------------------------------------------
(* Conversions at work *)

\* the configurations converters are built with: the default one, and one
\* that strips YAML front matter
Configurations ==
    <<ConversionConfig,
      [ConversionConfig EXCEPT !.parsing = ParsingConfig(TRUE)]>>

\* the overrides of a call: none, or front-matter stripping together with
\* bracketed block math
CallOverrides ==
    <<NoneV,
      MapV([parsing |-> MapV([strip_yaml_front_matter |-> BoolV(TRUE)]),
            math |-> MapV([block_style |-> StrV(<<"b", "r", "a", "c", "k", "e", "t", "s">>)])])>>

-----------------------------------------------------------------------------
(* One conversion alone *)

\* convert_string(source, config, overrides) is a function of its arguments:
\* they are drawn first, and the call converts them
ConvertInit ==
    /\ \E source \in Sources, n \in DOMAIN Configurations,
          o \in DOMAIN CallOverrides :
           conversion = [called |-> FALSE, source |-> source, config |-> n,
                         overrides |-> o]
    /\ converters = << >>
    /\ _TRANSFORMS = << >>
    /\ registry = [op |-> "import"]
    /\ parsed = [called |-> FALSE, source |-> << >>]
    /\ config = ConfigStart
    /\ rendered = [op |-> "none"]
    /\ stack = << >>

\* convert_string(source, config, overrides)  (engine.py 66-73)
Convert ==
    /\ ~conversion.called
    /\ conversion' =
           [called |-> TRUE, source |-> conversion.source,
            config |-> conversion.config, overrides |-> conversion.overrides,
            result |-> convert_string(conversion.source,
                                      Configurations[conversion.config],
                                      CallOverrides[conversion.overrides])]
    /\ UNCHANGED <<renderVars, converters, parserVars, configVars, registryVars>>

ConvertNext == Convert

SpecConvert == ConvertInit /\ [][ConvertNext]_vars

\* C2: whatever the source and the configuration, convert_string without
\* transforms returns a string or raises a ParsingError subclass.
C2_OnlyParsingErrors ==
    conversion.called =>
        \/ ~conversion.result.raised
        \/ conversion.result.kind \in ParsingErrors

-----------------------------------------------------------------------------
(* Converters at work: transforms are registered, converters are built and  *)
(* convert sources                                                          *)

\* at most MaxConverters converters are built
MaxConverters == 2

\* the sources converters are given: front matter, a footnote and two
\* blocks; the two blocks alone; a heading; a malformed heading
Inputs ==
    {SourceOf(<<FragYaml, FragFootnote, FragCode, FragMath>>),
     SourceOf(<<FragCode, FragMath>>),
     SourceOf(<<FragHeading>>),
     SourceOf(<<FragBadHeading>>)}

\* the transforms and transform names converters are built with
Builds ==
    <<[transforms |-> << >>, transform_names |-> << >>],
      [transforms |-> <<"reverse">>, transform_names |-> << >>],
      [transforms |-> <<"reverse">>, transform_names |-> << <<"b">> >>]>>

\* the transforms registered for converters to resolve
Registrations == {"add_notice", "drop_first"}

Init ==
    /\ _TRANSFORMS = << >>
    /\ converters = << >>
    /\ conversion = [called |-> FALSE]
    /\ registry = [op |-> "import"]
    /\ parsed = [called |-> FALSE, source |-> << >>]
    /\ config = ConfigStart
    /\ rendered = [op |-> "none"]
    /\ stack = << >>

\* register_transform("b", transform, overwrite=True), as the tests register
\* their transform  (tests/test_conversion/test_transforms.py 27)
Register ==
    \E transform \in Registrations :
        /\ _TRANSFORMS' =
               register_transform(_TRANSFORMS, <<"b">>, transform,
                                  TRUE).transforms
        /\ UNCHANGED <<renderVars, registry, parserVars, configVars, engineVars>>

\* MarkdownToLaTeXConverter(config=..., transforms=..., transform_names=...);
\* a constructor that raises leaves no converter
NewConverter ==
    \E n \in DOMAIN Configurations, b \in DOMAIN Builds :
        LET made == MarkdownToLaTeXConverter(
                        Configurations[n], Builds[b].transforms,
                        Builds[b].transform_names, _TRANSFORMS)
        IN  /\ Len(converters) < MaxConverters
            /\ converters' = IF made.raised THEN converters
                             ELSE Append(converters, made.value)
            /\ UNCHANGED <<renderVars, conversion, parserVars, configVars, registryVars>>

\* two converters with equal configuration and equal transform list
SameBuild(a, b) == a.config = b.config /\ a.transforms = b.transforms

\* the converter of the call before, when that call had the same source and
\* overrides on a converter of the same build; 0 otherwise
Previous(c, source, o) ==
    IF /\ conversion.called
       /\ conversion.source = source
       /\ conversion.overrides = o
       /\ SameBuild(converters[conversion.converter], converters[c])
    THEN conversion.converter ELSE 0

\* whether the call before was made on the same converter with overrides
Before(c) ==
    /\ conversion.called
    /\ conversion.converter = c
    /\ Truthy(CallOverrides[conversion.overrides])

\* a convert_string call that stores the configuration of the call in the
\* converter
ConvertString_storing ==
    \E c \in DOMAIN converters, source \in Inputs,
       o \in DOMAIN CallOverrides :
        LET stages == Stages(converters[c], source, CallOverrides[o])
        IN  /\ conversion' =
                   [called |-> TRUE, converter |-> c, source |-> source,
                    overrides |-> o, previous |-> Previous(c, source, o),
                    before |-> Before(c), stages |-> stages]
            /\ converters' =
                   IF stages.reached = 0 THEN converters
                   ELSE [converters EXCEPT
                            ![c].config = stages.config,
                            ![c].generator =
                                LaTeXGenerator(stages.config,
                                    InlineTransformer(stages.config, << >>))]
            /\ UNCHANGED <<renderVars, parserVars, configVars, registryVars>>

\* converters[c].convert_string(source, overrides)  (engine.py 33-63)
ConvertString ==
    \E c \in DOMAIN converters, source \in Inputs,
       o \in DOMAIN CallOverrides :
        /\ conversion' =
               [called |-> TRUE, converter |-> c, source |-> source,
                overrides |-> o, previous |-> Previous(c, source, o),
                before |-> Before(c),
                stages |-> Stages(converters[c], source, CallOverrides[o])]
        /\ UNCHANGED <<renderVars, converters, parserVars, configVars, registryVars>>

Next ==
    \/ Register
    \/ NewConverter
    \/ ConvertString

Spec == Init /\ [][Next]_vars

\* two outcomes alike: the same string, or the same exception with the same
\* line and content
SameOutcome(a, b) ==
    /\ a.raised = b.raised
    /\ IF a.raised
       THEN /\ a.kind = b.kind
            /\ DOMAIN a = DOMAIN b
            /\ "line" \in DOMAIN a => a.line = b.line /\ a.content = b.content
       ELSE a.value = b.value

RECURSIVE IsSubsequence(_, _)
IsSubsequence(a, b) ==
    IF a = << >> THEN TRUE
    ELSE IF b = << >> THEN FALSE
    ELSE IF Head(a) = Head(b) THEN IsSubsequence(Tail(a), Tail(b))
    ELSE IsSubsequence(a, Tail(b))

\* a line that is neither a footnote definition nor, being blank or
\* indented, able to continue one
Plain(line) ==
    /\ ~IsFootnoteDefinition(line)
    /\ Strip(line) # << >>
    /\ ~StartsWith(line, <<" ", " ", " ", " ">>)
    /\ ~StartsWith(line, <<"\t">>)

\* the number of lines of the front matter of a source: the lines up to the
\* first "---" after an opening "---", 0 when there is no such block
FrontMatter(lines) ==
    LET closers == {k \in 2..Len(lines) : Strip(lines[k]) = <<"-", "-", "-">>}
    IN  IF lines # << >> /\ Strip(lines[1]) = <<"-", "-", "-">> /\ closers # {}
        THEN CHOOSE k \in closers : \A other \in closers : k <= other
        ELSE 0

\* the parser's input against the lines of the source that follow the
\* front matter: no footnote definition, no other line gone or out of place
ParserSees(seen, body) ==
    /\ \A k \in DOMAIN seen : ~IsFootnoteDefinition(seen[k])
    /\ IsSubsequence(seen, body)
    /\ SelectSeq(seen, Plain) = SelectSeq(body, Plain)

\* the stages after the parser against the parser's outcome
ParserFeeds(st, self, document) ==
    /\ document.raised = (st.reached = 3)
    /\ st.reached = 3 => SameOutcome(st.result, document)
    /\ st.reached = 5 =>
           /\ st.ast = document.value
           /\ st.transformed = Composition(st.ast, self.transforms)
           /\ SameOutcome(
                  st.result,
                  accept(st.transformed,
                         LaTeXGenerator(st.config,
                             InlineTransformer(st.config, st.footnotes))))

\* the stages of a call against its converter, source lines and overrides
InOrder(st, self, lines, overrides) ==
    /\ st.config = IF Truthy(overrides)
                   THEN with_overrides(self.config, overrides).value
                   ELSE self.config
    /\ ParserSees(SplitLines(st.parser_input),
                  IF st.config.parsing.strip_yaml_front_matter
                  THEN Drop(lines, FrontMatter(lines)) ELSE lines)
    /\ ParserFeeds(st, self, parse(st.parser_input))

\* C4: in a convert_string call whose overrides are accepted, the parser is
\* given the source without its front matter (when the configuration merged
\* with the overrides strips it) and without its footnote definitions, every
\* other line in place; the transforms are applied to the parser's document
\* in order; and the generator, configured by the merged configuration and
\* the extracted footnotes, renders the document of the last transform.  A
\* parsing error ends the call with that error.
C4_StageOrder ==
    (conversion.called /\ conversion.stages.reached >= 3) =>
        InOrder(conversion.stages, converters[conversion.converter],
                SplitLines(conversion.source),
                CallOverrides[conversion.overrides])

\* a call that stripped front matter, extracted a footnote, applied
\* transforms and returned a string
C4_Witness ==
    /\ conversion.called
    /\ conversion.stages.reached = 5
    /\ conversion.stages.stripped # conversion.source
    /\ DOMAIN conversion.stages.footnotes # {}
    /\ converters[conversion.converter].transforms # << >>
    /\ conversion.stages.transformed # conversion.stages.ast
    /\ ~conversion.stages.result.raised
-----------------------------------------------------------------------------
(* InlineTransformer: the inline rules  (inline.py) and the formatting      *)
(* methods of the sub-configs they call  (config.py)                        *)

\* number of leading characters of s that lie outside set cs
RECURSIVE CountLeadingNot(_, _)
CountLeadingNot(s, cs) ==
    IF s = << >> \/ Head(s) \in cs THEN 0
    ELSE 1 + CountLeadingNot(Tail(s), cs)

\* InlineTransformer._inline_code_pattern  (inline.py 14), the regular
\* expression `([^`\n]+)` tried at position i of the text
CodeSpanAt(text, i) ==
    LET rest == Drop(text, i)
        n == CountLeadingNot(rest, {Tick, NL})
    IN  IF text[i] = Tick /\ n >= 1 /\ n < Len(rest) /\ rest[n + 1] = Tick
        THEN [ok |-> TRUE, start |-> i, end |-> i + n + 1,
              code |-> Take(rest, n)]
        ELSE NoMatch

\* the matches _inline_code_pattern.finditer(text) yields from position i on
RECURSIVE CodeSpans(_, _)
CodeSpans(text, i) ==
    IF i > Len(text) THEN << >>
    ELSE IF CodeSpanAt(text, i).ok
    THEN <<CodeSpanAt(text, i)>> \o CodeSpans(text, CodeSpanAt(text, i).end + 1)
    ELSE CodeSpans(text, i + 1)

\* InlineTransformer._ensure_command  (inline.py 271-276)
_ensure_command(command) ==
    IF StartsWith(Strip(command), <<"\\">>) THEN Strip(command)
    ELSE <<"\\">> \o Strip(command)

\* InlineTransformer._escape_texttt  (inline.py 116-118)
_escape_texttt(inline, code) ==
    Flatten([k \in 1..Len(code) |->
        IF code[k] \in DOMAIN inline.config.inline.texttt_escape_map
        THEN inline.config.inline.texttt_escape_map[code[k]]
        ELSE <<code[k]>>])

\* InlineTransformer._format_inline_code  (inline.py 110-114)
_format_inline_code(inline, code) ==
    _ensure_command(inline.config.inline.code_command)
        \o <<"{">> \o _escape_texttt(inline, code) \o <<"}">>

\* str.replace(old, new): an empty old matches before every character and
\* at the end
StrReplace(s, old, new) ==
    IF old = << >>
    THEN Flatten([k \in 1..Len(s) |-> new \o <<s[k]>>]) \o new
    ELSE Replace(s, old, new)

\* _normalize_characters that replaces only the first occurrence of each
\* source
RECURSIVE _normalize_characters_once(_, _)
_normalize_characters_once(pairs, text) ==
    IF pairs = << >> THEN text
    ELSE _normalize_characters_once(
             Tail(pairs),
             IF Contains(text, Head(pairs)[1]) /\ Head(pairs)[1] # << >>
             THEN Take(text, Find(text, Head(pairs)[1]) - 1) \o Head(pairs)[2]
                  \o Drop(text, Find(text, Head(pairs)[1]) - 1
                                + Len(Head(pairs)[1]))
             ELSE text)

\* InlineTransformer._normalize_characters  (inline.py 120-125), on the
\* table config.inline.character_normalization: the pairs are applied in
\* the order of the table, each to the result of the one before
RECURSIVE _normalize_characters(_, _)
_normalize_characters(pairs, text) ==
    IF pairs = << >> THEN text
    ELSE _normalize_characters(
             Tail(pairs), StrReplace(text, Head(pairs)[1], Head(pairs)[2]))

\* _normalize_link_template  (config.py 31-40) for one of its field names
NormalizedField(template, name) ==
    IF Contains(template, <<"{">> \o name \o <<"}">>)
       /\ ~Contains(template, <<"{", "{", "{">> \o name \o <<"}", "}", "}">>)
    THEN Replace(template, <<"{">> \o name \o <<"}">>,
                 <<"{", "{", "{">> \o name \o <<"}", "}", "}">>)
    ELSE template

\* _normalize_link_template  (config.py 31-40)
_normalize_link_template(template) ==
    NormalizedField(
        NormalizedField(
            NormalizedField(NormalizedField(template, <<"u", "r", "l">>), <<"t", "e", "x", "t">>),
            <<"l", "a", "b", "e", "l">>),
        <<"k", "e", "y", "s">>)

\* CitationConfig.format_citation  (config.py 108-111)
format_citation(citations, keys) ==
    Format(_normalize_link_template(citations.cite_template),
           [k \in {<<"k", "e", "y", "s">>} |-> Join(keys, citations.separator)])

\* CitationConfig.format_citation_with_locator  (config.py 113-116)
format_citation_with_locator(citations, keys, locator) ==
    Format(_normalize_link_template(citations.cite_with_locator_template),
           (<<"k", "e", "y", "s">> :> Join(keys, citations.separator))
               @@ (<<"l", "o", "c", "a", "t", "o", "r">> :> locator))

\* FootnoteConfig.format_footnote  (config.py 125-127)
format_footnote(footnotes, text) ==
    Format(_normalize_link_template(footnotes.footnote_template),
           [k \in {<<"t", "e", "x", "t">>} |-> text])

\* one entry of a citation marker: the key and its locator, None without a
\* comma  (inline.py 223-233)
CitationEntry(part) ==
    IF "," \in {part[k] : k \in 1..Len(part)}
    THEN [key |-> LStripSet(Strip(Take(part, IndexOf(part, ",") - 1)), {"@"}),
          locator |-> Strip(Drop(part, IndexOf(part, ",")))]
    ELSE [key |-> LStripSet(Strip(part), {"@"}), locator |-> None]

\* the entries of the parts of raw.split(";") that are not blank
RECURSIVE CitationEntries(_)
CitationEntries(parts) ==
    IF parts = << >> THEN << >>
    ELSE IF Strip(Head(parts)) = << >> THEN CitationEntries(Tail(parts))
    ELSE <<CitationEntry(Strip(Head(parts)))>> \o CitationEntries(Tail(parts))

\* the citation call of one entry when some entry has a locator
\* (inline.py 243-251)
CitationCall(citations, entry) ==
    IF entry.locator # None /\ entry.locator # << >>
    THEN format_citation_with_locator(citations, <<entry.key>>, entry.locator)
    ELSE format_citation(citations, <<entry.key>>)

\* the calls joined by the separator, or the error of the first call that
\* raises
JoinCalls(calls, separator) ==
    IF \E k \in DOMAIN calls : calls[k].raised
    THEN calls[CHOOSE k \in DOMAIN calls :
                   calls[k].raised /\ \A j \in 1..(k - 1) : ~calls[j].raised]
    ELSE Return(Join([k \in DOMAIN calls |-> calls[k].value], separator))

\* the rendering of the entries of a citation marker  (inline.py 235-252)
CitationOf(citations, raw, entries) ==
    IF entries = << >> THEN Return(raw)
    ELSE IF \A k \in DOMAIN entries : entries[k].locator = None
    THEN format_citation(citations, [k \in DOMAIN entries |-> entries[k].key])
    ELSE JoinCalls([k \in DOMAIN entries |->
                       CitationCall(citations, entries[k])],
                   citations.multi_cite_separator)

\* _format_citation that renders every marker as one call of all its keys
_format_citation_joined(inline, raw) ==
    IF CitationEntries(Split(raw, ";")) = << >> THEN Return(raw)
    ELSE format_citation(inline.config.citations,
                         [k \in DOMAIN CitationEntries(Split(raw, ";")) |->
                             CitationEntries(Split(raw, ";"))[k].key])

\* InlineTransformer._format_citation  (inline.py 221-252)
_format_citation(inline, raw) ==
    CitationOf(inline.config.citations, raw, CitationEntries(Split(raw, ";")))

\* InlineTransformer._format_footnote_ref  (inline.py 254-258)
_format_footnote_ref(inline, key) ==
    IF key \notin DOMAIN inline.footnotes_map
    THEN Return(<<"[", "^">> \o key \o <<"]">>)
    ELSE format_footnote(inline.config.footnotes, inline.footnotes_map[key])

-----------------------------------------------------------------------------
(* Rendering calls at work: one call of an inline rule, of a generator      *)
(* method or of a sub-config method, its arguments drawn first              *)

\* texts with inline code spans among other inline markup
InlineTexts ==
    {<<Tick, "*", "*", "x", "*", "*", Tick>>, <<"a", " ", Tick, "_", "b", "_", Tick, " ", "c">>, <<Tick, "[", "t", "]", "(", "u", ")", Tick, " ", "a", "n", "d", " ", Tick, "[", "@", "k", "]", Tick>>, <<Tick, "x">> \o <<EnDash>> \o <<"y", Tick>>,
     <<"p">>, <<"*", "*", "b", "*", "*">>, <<Tick, "a", Tick, "b", Tick>>,
     <<"$", "x", "$">>, <<"a", " ", "\\", "(", "b", "_", "c", "\\", ")">>,
     <<"$", " ", "\\", "(", "a", "\\", ")", " ", "$">>}

\* contents of inline code spans
Codes ==
    {<<"*", "*", "x", "*", "*">>, <<"_", "b", "_">>, <<"[", "t", "]", "(", "u", ")">>, <<"[", "@", "k", "]">>, <<"[", "^", "k", "]">>, <<"[", "[", "w", "]", "]">>, <<"$", "x", "$">>,
     <<"x">> \o <<EnDash>> \o <<"y">>, <<"a", "_", "b">>, <<"\\", "n">>, <<"{", "}">>}

\* code commands and escape maps of config.inline
CodeCommands == {<<"t", "e", "x", "t", "t", "t">>, <<"\\", "v", "e", "r", "b">>, <<" ", "c", "o", "d", "e", " ">>}
RenderEscapeMaps == {DEFAULT_TEXTTT_ESCAPE_MAP, << >>, ("*" :> <<"\\", "a", "s", "t">>)}

\* fenced code blocks as the parser builds them
RenderCodeBlocks ==
    {CodeBlock(lang, content) :
        lang \in {None, <<"p", "y">>},
        content \in {<<"*", "*", "x", "*", "*">>, <<"a", " ", Tick, "b", Tick, " ", "[", "@", "k", "]">>, <<"$", "x", "$", NL, "_", "y", "_">>, << >>,
                     <<"x">> \o <<EnDash>> \o <<"y">>}}

\* the configuration with the given inline code command and escape map
WithCode(command, escapes) ==
    [ConversionConfig EXCEPT !.inline.code_command = command,
                             !.inline.texttt_escape_map = escapes]

ConvertCalls ==
    {[op |-> "convert", called |-> FALSE, text |-> text] :
        text \in InlineTexts}
FormatInlineCodeCalls ==
    {[op |-> "_format_inline_code", called |-> FALSE, code |-> code,
      command |-> command, escapes |-> escapes] :
        code \in Codes, command \in CodeCommands,
        escapes \in RenderEscapeMaps}
VisitCodeBlockCalls ==
    {[op |-> "visit_code_block", called |-> FALSE, node |-> node] :
        node \in RenderCodeBlocks}

\* InlineTransformer().convert(text)
InlineConvert ==
    /\ rendered.op = "convert" /\ ~rendered.called
    /\ rendered' =
           [op |-> "convert", called |-> TRUE, text |-> rendered.text,
            outcome |-> convert(InlineTransformer(ConversionConfig, << >>),
                                rendered.text)]
    /\ UNCHANGED <<parserVars, configVars, registryVars, engineVars>>

\* InlineTransformer(config)._format_inline_code(code)
FormatInlineCode ==
    /\ rendered.op = "_format_inline_code" /\ ~rendered.called
    /\ rendered' =
           [op |-> "_format_inline_code", called |-> TRUE,
            code |-> rendered.code, command |-> rendered.command,
            escapes |-> rendered.escapes,
            outcome |-> Return(_format_inline_code(
                InlineTransformer(
                    WithCode(rendered.command, rendered.escapes), << >>),
                rendered.code))]
    /\ UNCHANGED <<parserVars, configVars, registryVars, engineVars>>

\* LaTeXGenerator().visit_code_block(node)
VisitCodeBlock ==
    /\ rendered.op = "visit_code_block" /\ ~rendered.called
    /\ rendered' =
           [op |-> "visit_code_block", called |-> TRUE, node |-> rendered.node,
            outcome |-> visit_code_block(
                LaTeXGenerator(ConversionConfig,
                               InlineTransformer(ConversionConfig, << >>)),
                rendered.node)]
    /\ UNCHANGED <<parserVars, configVars, registryVars, engineVars>>

\* the text between "[@" and "]" of citation markers
CitationRaws ==
    {<<"a">>, <<"a", ";", " ", "@", "b">>, <<"@", "a", ";", "@", "b", ";", "c">>, <<"a", ",", " ", "p", ".", " ", "2">>, <<"a", ",", " ", "p", ".", " ", "2", ";", " ", "b">>, <<"a", ",", ";", " ", "@", "b">>,
     <<"a", ",">>, <<";">>, <<"a", ";", ";", "b">>, <<" ", "a", " ", ",", " ", "p", " ", ";", "b", ",", "q">>, <<"@", "@", "a", ",", " ", "x", ",", " ", "y">>}

\* settings of config.citations
CitationConfigs ==
    {DefaultCitationConfig,
     CitationConfig(<<"\\", "c", "i", "t", "e", "p", "{", "k", "e", "y", "s", "}">>, <<"\\", "c", "i", "t", "e", "p", "[", "{", "l", "o", "c", "a", "t", "o", "r", "}", "]", "{", "k", "e", "y", "s", "}">>, <<";", " ">>,
                    <<" ", "a", "n", "d", " ">>)}

FormatCitationCalls ==
    {[op |-> "_format_citation", called |-> FALSE, raw |-> raw,
      citations |-> citations] :
        raw \in CitationRaws, citations \in CitationConfigs}

\* InlineTransformer(config)._format_citation(raw)
FormatCitation ==
    /\ rendered.op = "_format_citation" /\ ~rendered.called
    /\ rendered' =
           [op |-> "_format_citation", called |-> TRUE, raw |-> rendered.raw,
            citations |-> rendered.citations,
            outcome |-> _format_citation(
                InlineTransformer(
                    [ConversionConfig EXCEPT !.citations = rendered.citations],
                    << >>),
                rendered.raw)]
    /\ UNCHANGED <<parserVars, configVars, registryVars, engineVars>>

\* footnote maps as _extract_footnotes builds them, and keys of references
FootnoteMaps == {<< >>, <<"k">> :> <<"f">>, (<<"k">> :> <<"f", NL, "c">>) @@ (<<"j">> :> << >>)}
FootnoteKeys == {<<"k">>, <<"j">>, <<"u">>}

FormatFootnoteRefCalls ==
    {[op |-> "_format_footnote_ref", called |-> FALSE, key |-> key,
      footnotes_map |-> footnotes_map] :
        key \in FootnoteKeys, footnotes_map \in FootnoteMaps}

\* InlineTransformer(config, footnotes_map)._format_footnote_ref(key)
FormatFootnoteRef ==
    /\ rendered.op = "_format_footnote_ref" /\ ~rendered.called
    /\ rendered' =
           [op |-> "_format_footnote_ref", called |-> TRUE,
            key |-> rendered.key, footnotes_map |-> rendered.footnotes_map,
            outcome |-> _format_footnote_ref(
                InlineTransformer(ConversionConfig, rendered.footnotes_map),
                rendered.key)]
    /\ UNCHANGED <<parserVars, configVars, registryVars, engineVars>>

\* tables with and without span annotations in their body cells
RenderTables ==
    {Table(<<"l", "l">>, <<<<"A">>, <<"B">>>>, rows) :
        rows \in {<< <<<<"x", "{", "c", "o", "l", "=", "2", "}">>>> >>,
                  << <<<<"a">>, <<"b">>>> >>,
                  << <<<<"x", "{", "c", "o", "l", "=", "1", "}">>, <<"y">>>>, <<<<"x", " ", "{", "c", "o", "l", "=", "3", "}">>, <<"y">>, <<"z">>, <<"w">>>> >>,
                  << <<<<"a", "{", "r", "o", "w", "=", "2", "}">>, <<"b">>>>, <<<<"c", "{", "c", "o", "l", "=", "0", "}">>, <<"d">>>> >>,
                  << >>}}
        \cup {Table(<< >>, << >>, << >>), Table(<<"l">>, << >>, << << >> >>)}

VisitTableCalls ==
    {[op |-> "visit_table", called |-> FALSE, node |-> node] :
        node \in RenderTables}

\* LaTeXGenerator().visit_table(node)
VisitTable ==
    /\ rendered.op = "visit_table" /\ ~rendered.called
    /\ rendered' =
           [op |-> "visit_table", called |-> TRUE, node |-> rendered.node,
            outcome |-> visit_table(
                LaTeXGenerator(ConversionConfig,
                               InlineTransformer(ConversionConfig, << >>)),
                rendered.node)]
    /\ UNCHANGED <<parserVars, configVars, registryVars, engineVars>>

\* list items: empty, of paragraphs, of blocks, and mixed
RenderItems ==
    {ListItem(content) :
        content \in {<< >>,
                     <<Paragraph(<<"a">>)>>,
                     <<Paragraph(<<"a">>), Paragraph(<<"b">>)>>,
                     <<CodeBlock(None, <<"x">>)>>,
                     <<CodeBlock(None, <<"x">>), MathBlock(<<"y">>)>>,
                     <<MathBlock(<<"y">>), Paragraph(<<"a">>)>>,
                     <<Paragraph(<<"a">>), CodeBlock(None, <<"x">>), Paragraph(<<"b">>)>>,
                     <<List(FALSE, <<ListItem(<< >>), ListItem(<< >>)>>)>>,
                     <<Paragraph(<<"a">>),
                       List(TRUE, <<ListItem(<<Paragraph(<<"b">>)>>)>>)>>}}

VisitListItemCalls ==
    {[op |-> "visit_list_item", called |-> FALSE, node |-> node] :
        node \in RenderItems}

\* LaTeXGenerator().visit_list_item(node)
VisitListItem ==
    /\ rendered.op = "visit_list_item" /\ ~rendered.called
    /\ rendered' =
           [op |-> "visit_list_item", called |-> TRUE, node |-> rendered.node,
            outcome |-> visit_list_item(
                LaTeXGenerator(ConversionConfig,
                               InlineTransformer(ConversionConfig, << >>)),
                rendered.node)]
    /\ UNCHANGED <<parserVars, configVars, registryVars, engineVars>>

\* settings of config.callouts and callout types
EnvironmentMaps ==
    {<< >>, <<"n", "o", "t", "e">> :> <<"n", "b">>, (<<"N", "o", "t", "e">> :> <<"N">>) @@ (<<"n", "o", "t", "e">> :> <<"n">>),
     <<"N", "O", "T", "E">> :> <<"X">>, <<"T", "i", "p">> :> <<"T">>}
EnvironmentTemplates == {DEFAULT_CALLOUT_ENV_TEMPLATE, <<"c", "a", "l", "l", "o", "u", "t">>, <<"{", "k", "i", "n", "d", "}">>}
TypeNormalizations == {<<"l", "o", "w", "e", "r">>, <<"u", "p", "p", "e", "r">>, <<"n", "o", "n", "e">>}
CalloutTypes == {<<"n", "o", "t", "e">>, <<"N", "o", "t", "e">>, <<"N", "O", "T", "E">>, <<"T", "i", "p">>, <<"t", "i", "p">>}

ResolveEnvironmentCalls ==
    {[op |-> "resolve_environment", called |-> FALSE,
      callouts |-> CalloutConfig(environment_map, template, None, mode),
      callout_type |-> callout_type] :
        environment_map \in EnvironmentMaps,
        template \in EnvironmentTemplates,
        mode \in TypeNormalizations, callout_type \in CalloutTypes}

\* CalloutConfig(...).resolve_environment(callout_type)
ResolveEnvironment ==
    /\ rendered.op = "resolve_environment" /\ ~rendered.called
    /\ rendered' =
           [op |-> "resolve_environment", called |-> TRUE,
            callouts |-> rendered.callouts,
            callout_type |-> rendered.callout_type,
            outcome |-> resolve_environment(rendered.callouts,
                                            rendered.callout_type)]
    /\ UNCHANGED <<parserVars, configVars, registryVars, engineVars>>

\* tables of config.inline.character_normalization and texts to normalize
NormalizationTables ==
    {DEFAULT_CHARACTER_NORMALIZATION,
     << >>,
     << <<<<"a">>, <<"a", "a">>>> >>,
     << <<<<"b">>, <<"c">>>>, <<<<"a">>, <<"b">>>> >>,
     << <<<<"a">>, <<"b">>>>, <<<<"b">>, <<"c">>>> >>,
     << <<<<"x", "c">>, <<"y">>>>, <<<<"a", "b">>, <<"x">>>> >>,
     << <<<<"a", "b">>, << >> >> >>,
     << <<<<"a", "b">>, <<"x">>>>, <<<<"c">>, <<"y", "z">>>> >>,
     << << << >>, <<"x">>>> >>}
NormalizationTexts ==
    {<< >>, <<"a">>, <<"a", "b", "c">>, <<"a", "a", "b", "b">>, <<"b", "a", "a", "b">>, <<"a", "b", "a", "b">>,
     <<"a", EnDash, "b", RightQuote, "c">>, <<EnDash, EnDash>>,
     <<LessEqual, GreaterEqual, OeLigature>>}

NormalizeCharactersCalls ==
    {[op |-> "_normalize_characters", called |-> FALSE, table |-> table,
      text |-> text] :
        table \in NormalizationTables, text \in NormalizationTexts}

\* InlineTransformer(config)._normalize_characters(text), with
\* config.inline.character_normalization the table
NormalizeCharacters ==
    /\ rendered.op = "_normalize_characters" /\ ~rendered.called
    /\ rendered' =
           [op |-> "_normalize_characters", called |-> TRUE,
            table |-> rendered.table, text |-> rendered.text,
            outcome |-> Return(_normalize_characters(rendered.table,
                                                     rendered.text))]
    /\ UNCHANGED <<parserVars, configVars, registryVars, engineVars>>

-----------------------------------------------------------------------------
(* One rendering call alone *)

RenderCalls ==
    ConvertCalls \cup FormatInlineCodeCalls \cup VisitCodeBlockCalls
        \cup FormatCitationCalls \cup FormatFootnoteRefCalls
        \cup VisitTableCalls \cup VisitListItemCalls
        \cup ResolveEnvironmentCalls \cup NormalizeCharactersCalls

RenderInit ==
    /\ rendered \in RenderCalls
    /\ stack = << >>
    /\ parsed = [called |-> FALSE, source |-> << >>]
    /\ config = ConfigStart
    /\ _TRANSFORMS = << >>
    /\ registry = [op |-> "import"]
    /\ converters = << >>
    /\ conversion = << >>

RenderNext ==
    \/ InlineConvert
    \/ FormatInlineCode
    \/ VisitCodeBlock
    \/ FormatCitation
    \/ FormatFootnoteRef
    \/ VisitTable
    \/ VisitListItem
    \/ ResolveEnvironment
    \/ NormalizeCharacters

SpecRender == RenderInit /\ [][RenderNext]_vars

\* the transformer of the default configuration
DefaultInline == InlineTransformer(ConversionConfig, << >>)

\* C11: code is shielded from the inline rules.  convert returns a text in
\* which every inline code span of its argument stands as the code command
\* around the span's content, escaped by the texttt escape map and otherwise
\* as written (with an empty escape map: exactly as written); the content of
\* a fenced code block stands unmodified between the lines that open and
\* close its environment.
C11_CodeShielded ==
    /\ (rendered.op = "convert" /\ rendered.called) =>
           /\ ~rendered.outcome.raised
           /\ \A k \in DOMAIN CodeSpans(rendered.text, 1) :
                  Contains(rendered.outcome.value,
                           _format_inline_code(
                               DefaultInline,
                               CodeSpans(rendered.text, 1)[k].code))
    /\ (rendered.op = "_format_inline_code" /\ rendered.called
            /\ DOMAIN rendered.escapes = {}) =>
           rendered.outcome.value =
               _ensure_command(rendered.command)
                   \o <<"{">> \o rendered.code \o <<"}">>
    /\ (rendered.op = "visit_code_block" /\ rendered.called) =>
           /\ ~rendered.outcome.raised
           /\ Contains(rendered.outcome.value,
                       <<NL>> \o rendered.node.content \o <<NL>>)

\* an entry of a citation marker carries a locator when text follows its
\* first comma
HasLocator(entry) == entry.locator # None /\ entry.locator # << >>

\* C12: a citation marker none of whose entries carries a locator gives one
\* citation call of all its keys, joined by the key separator; a marker
\* with a locator in some entry gives one call per entry, with the entry's
\* locator when it has one, joined by multi_cite_separator.
C12_Citation ==
    (rendered.op = "_format_citation" /\ rendered.called) =>
        LET entries == CitationEntries(Split(rendered.raw, ";"))
            keys == [k \in DOMAIN entries |-> entries[k].key]
        IN  entries # << >> =>
                rendered.outcome =
                    IF \A k \in DOMAIN entries : ~HasLocator(entries[k])
                    THEN format_citation(rendered.citations, keys)
                    ELSE JoinCalls(
                             [k \in DOMAIN entries |->
                                 IF HasLocator(entries[k])
                                 THEN format_citation_with_locator(
                                          rendered.citations, <<keys[k]>>,
                                          entries[k].locator)
                                 ELSE format_citation(rendered.citations,
                                                      <<keys[k]>>)],
                             rendered.citations.multi_cite_separator)

\* C13: in convert_string, a footnote reference whose key has a definition
\* line in the document is replaced by the footnote template applied to the
\* definition text, continuation lines included, and a reference whose key
\* has none is emitted as it was written.
C13_FootnoteReferences ==
    (conversion.called /\ Contains(conversion.source, FragReference[1])) =>
        /\ ~conversion.result.raised
        /\ Contains(conversion.result.value, <<"[", "^", "u", "]">>)
        /\ IF Contains(conversion.source, FragFootnote[1])
           THEN /\ Contains(conversion.result.value,
                            format_footnote(DefaultFootnoteConfig,
                                            <<"f", NL, "c">>).value)
                /\ ~Contains(conversion.result.value, <<"[", "^", "k", "]">>)
           ELSE Contains(conversion.result.value, <<"[", "^", "k", "]">>)

\* the spans of the cells the row loop visits when its pointer starts at
\* idx: a column span above 1 moves the pointer by the span, anything else
\* by 1
RECURSIVE Visited(_, _)
Visited(row, idx) ==
    IF idx >= Len(row) THEN << >>
    ELSE <<_parse_cell_span(row[idx + 1]).value>>
             \o Visited(row,
                        idx + IF _parse_cell_span(row[idx + 1]).value.col_span > 1
                              THEN _parse_cell_span(row[idx + 1]).value.col_span
                              ELSE 1)

\* C14: visit_table renders every body row; a cell that ends with {col=N},
\* N > 1, is wrapped in \multicolumn{N}{align}{...} and moves the row's
\* pointer by N, any other cell moves it by 1 and is not wrapped, so a row
\* gives as many rendered cells as the pointer visits.
C14_ColumnSpan ==
    (rendered.op = "visit_table" /\ rendered.called) =>
        /\ ~rendered.outcome.raised
        /\ \A r \in DOMAIN rendered.node.rows :
               \A k \in DOMAIN Visited(rendered.node.rows[r], 0) :
                   LET span == Visited(rendered.node.rows[r], 0)[k]
                       wrap == <<"\\", "m", "u", "l", "t", "i", "c", "o", "l", "u", "m", "n", "{">> \o IntToStr(span.col_span)
                                   \o <<"}", "{", "c", "}", "{">>
                   IN  span.col_span > 1 =>
                           Contains(rendered.outcome.value, wrap)
        /\ (\A r \in DOMAIN rendered.node.rows :
               \A k \in DOMAIN Visited(rendered.node.rows[r], 0) :
                   Visited(rendered.node.rows[r], 0)[k].col_span <= 1) =>
               ~Contains(rendered.outcome.value, <<"\\", "m", "u", "l", "t", "i", "c", "o", "l", "u", "m", "n">>)

\* C15: visit_list_item returns a text whose first line holds the item's
\* one \item: "\item" alone for an item without children, "\item <text>"
\* when the first child is a Paragraph, and "\item" on a line of its own
\* before the block's rendering when the first child is a block.
C15_OneItem ==
    (rendered.op = "visit_list_item" /\ rendered.called) =>
        /\ ~rendered.outcome.raised
        /\ IF rendered.node.content = << >>
           THEN rendered.outcome.value = <<"\\", "i", "t", "e", "m">>
           ELSE IF rendered.node.content[1].type = "Paragraph"
           THEN StartsWith(rendered.outcome.value, <<"\\", "i", "t", "e", "m", " ">>)
           ELSE StartsWith(rendered.outcome.value, <<"\\", "i", "t", "e", "m", NL>>)
        /\ (\A k \in DOMAIN rendered.node.content :
               rendered.node.content[k].type # "List") =>
               ~Contains(Drop(rendered.outcome.value, 5), <<"\\", "i", "t", "e", "m">>)

\* C16: resolve_environment normalizes the type as type_normalization says
\* (lower, upper, anything else: unchanged) and returns the environment
\* mapped to the normalized type, else the one mapped to the type as given,
\* else the default-environment template formatted with the normalized type.
C16_ResolveEnvironment ==
    (rendered.op = "resolve_environment" /\ rendered.called) =>
        LET callouts == rendered.callouts
            normalized ==
                CASE callouts.type_normalization = <<"l", "o", "w", "e", "r">> ->
                         ToLower(rendered.callout_type)
                  [] callouts.type_normalization = <<"u", "p", "p", "e", "r">> ->
                         ToUpper(rendered.callout_type)
                  [] OTHER -> rendered.callout_type
        IN  rendered.outcome =
                IF normalized \in DOMAIN callouts.environment_map
                THEN Return(callouts.environment_map[normalized])
                ELSE IF rendered.callout_type
                            \in DOMAIN callouts.environment_map
                THEN Return(callouts.environment_map[rendered.callout_type])
                ELSE Format(callouts.default_environment_template,
                            <<"t", "y", "p", "e">> :> normalized)

\* a call whose type is mapped only as given, not as normalized, and a call
\* that falls back on the default template: "Tip" gives its mapped "T", and
\* "Note" gives "notebox"
C16_Witness ==
    /\ rendered.op = "resolve_environment" /\ rendered.called
    /\ \/ /\ rendered.callout_type = <<"T", "i", "p">>
          /\ rendered.callouts.type_normalization = <<"l", "o", "w", "e", "r">>
          /\ rendered.outcome = Return(<<"T">>)
       \/ /\ rendered.callout_type = <<"N", "o", "t", "e">>
          /\ DOMAIN rendered.callouts.environment_map = {}
          /\ rendered.outcome = Return(<<"n", "o", "t", "e", "b", "o", "x">>)

\* the characters of a text
Chars(text) == {text[k] : k \in DOMAIN text}

\* a normalization table whose sources and replacement texts are not empty
\* and whose replacement texts share no character with any source
Separate(table) ==
    /\ \A k \in DOMAIN table : table[k][1] # << >> /\ table[k][2] # << >>
    /\ \A j, k \in DOMAIN table : Chars(table[j][2]) \cap Chars(table[k][1]) = {}

\* C17 as stated: whatever the table, normalizing a normalized text gives
\* the same text.
C17_Idempotent ==
    (rendered.op = "_normalize_characters" /\ rendered.called) =>
        _normalize_characters(rendered.table, rendered.outcome.value)
            = rendered.outcome.value

\* C17, amended: under a table whose sources and replacement texts are not
\* empty and whose replacement texts share no character with any source, as
\* the default table, normalizing a normalized text gives the same text.
C17_IdempotentSeparate ==
    (rendered.op = "_normalize_characters" /\ rendered.called
        /\ Separate(rendered.table)) =>
        _normalize_characters(rendered.table, rendered.outcome.value)
            = rendered.outcome.value

\* the default table has rewritten a text with two en dashes
C17_Witness ==
    /\ rendered.op = "_normalize_characters" /\ rendered.called
    /\ rendered.table = DEFAULT_CHARACTER_NORMALIZATION
    /\ rendered.text = <<EnDash, EnDash>>
    /\ rendered.outcome.value = <<"-", "-">>
-----------------------------------------------------------------------------
(* The parser step by step: one frame of the stack per call in progress,   *)
(* one step per round of a while loop of _parse_lines or _parse_list and   *)
(* one per return of a recursive _parse_lines call                         *)

\* the frame of the parse call: the bottom of the stack
ParseFrame(source) == [kind |-> "parse", source |-> source, called |-> FALSE]

\* the frame of a _parse_lines call at its entry (parser.py 71-72)
LinesFrame(lines) == [kind |-> "_parse_lines", lines |-> lines, i |-> 0, nodes |-> << >>]

\* the frame of a _parse_list call at its entry (parser.py 241-250)
ListFrame(lines, start_idx, match) ==
    [kind |-> "_parse_list", lines |-> lines, start_idx |-> start_idx,
     i |-> start_idx, base_indent |-> _indent_width(match.indent),
     ordered |-> _is_ordered_marker(match.marker), items |-> << >>]

\* the frame on top of the stack, and the stack without its n top frames
Top == stack[Len(stack)]
Below(n) == SubSeq(stack, 1, Len(stack) - n)

\* the cascade with the horizontal rule tried before the list item
BlockKind_rule_first(lines, i) ==
    LET raw_line == At(lines, i)
        normalized_line == _normalized_line(raw_line)
    IN  IF _is_blank(normalized_line) THEN "blank"
        ELSE IF _is_callout_header(raw_line) THEN "Callout"
        ELSE IF _is_code_fence_start(normalized_line) THEN "CodeBlock"
        ELSE IF _is_math_block_start(normalized_line) THEN "MathBlock"
        ELSE IF _is_heading(normalized_line) THEN "Section"
        ELSE IF _is_horizontal_rule(normalized_line) THEN "HorizontalRule"
        ELSE IF _is_list_item(normalized_line) THEN "List"
        ELSE IF _is_image_line(normalized_line) THEN "Image"
        ELSE IF _is_table_start(lines, i) THEN "Table"
        ELSE "Paragraph"

\* the branch of the cascade of _parse_lines taken at line i
\* (parser.py 78-153)
BlockKind(lines, i) ==
    LET raw_line == At(lines, i)
        normalized_line == _normalized_line(raw_line)
    IN  IF _is_blank(normalized_line) THEN "blank"
        ELSE IF _is_callout_header(raw_line) THEN "Callout"
        ELSE IF _is_code_fence_start(normalized_line) THEN "CodeBlock"
        ELSE IF _is_math_block_start(normalized_line) THEN "MathBlock"
        ELSE IF _is_heading(normalized_line) THEN "Section"
        ELSE IF _is_list_item(normalized_line) THEN "List"
        ELSE IF _is_image_line(normalized_line) THEN "Image"
        ELSE IF _is_table_start(lines, i) THEN "Table"
        ELSE IF _is_horizontal_rule(normalized_line) THEN "HorizontalRule"
        ELSE "Paragraph"

\* the node and the line count of a block parsed without a recursive
\* _parse_lines call (parser.py 88-153)
Leaf(lines, i, kind) ==
    LET normalized_line == _normalized_line(At(lines, i))
    IN  CASE kind = "CodeBlock" -> _parse_code_block(lines, i)
          [] kind = "MathBlock" -> _parse_math_block(lines, i)
          [] kind = "Section" ->
                 LET h == _parse_heading(normalized_line, i)
                 IN  IF h.raised THEN h ELSE Parsed(h.value, 1)
          [] kind = "Image" ->
                 LET g == _parse_image_line(normalized_line, i)
                 IN  IF g.raised THEN g ELSE Parsed(g.value, 1)
          [] kind = "Table" -> _parse_table(lines, i)
          [] kind = "HorizontalRule" -> Parsed(HorizontalRule, 1)
          [] OTHER ->
                 LET r == ParagraphLoop(lines, i + 1, <<normalized_line>>)
                 IN  Parsed(Paragraph(Join(r.paragraph_lines, <<NL>>)),
                            r.i - i)

\* the stack once the _parse_lines frame on top of frames has appended a
\* node and moved past the lines the node consumed (nodes.append(...);
\* i += consumed)
Advance(frames, node, consumed) ==
    [frames EXCEPT ![Len(frames)] =
        [@ EXCEPT !.nodes = Append(@, node), !.i = @ + consumed]]

\* the stack once an exception has unwound every frame: parse ends with it
Unwound(outcome) ==
    <<[kind |-> "parse", source |-> stack[1].source, called |-> TRUE,
       result |-> outcome]>>

\* MarkdownParser.parse calls _parse_lines on the lines of its source
\* (parser.py 52-67)
ParseCall ==
    /\ Len(stack) = 1 /\ ~stack[1].called
    /\ stack' = <<[kind |-> "parse", source |-> stack[1].source,
                   called |-> TRUE],
                  LinesFrame(SplitLines(stack[1].source))>>
    /\ UNCHANGED <<parsed, renderVars, configVars, registryVars, engineVars>>

\* a round of the loop of _parse_lines is due in the top frame
AtLine ==
    /\ Len(stack) > 1
    /\ Top.kind = "_parse_lines"
    /\ Top.i < Len(Top.lines)

\* a blank line is skipped (parser.py 78-80)
SkipBlank ==
    /\ AtLine
    /\ BlockKind(Top.lines, Top.i) = "blank"
    /\ stack' = [stack EXCEPT ![Len(stack)].i = @ + 1]
    /\ UNCHANGED <<parsed, renderVars, configVars, registryVars, engineVars>>

\* a code block, math block, heading, image, table, horizontal rule or
\* paragraph is parsed and appended (parser.py 88-153)
Block ==
    /\ AtLine
    /\ BlockKind(Top.lines, Top.i) \notin {"blank", "Callout", "List"}
    /\ LET b == Leaf(Top.lines, Top.i, BlockKind(Top.lines, Top.i))
       IN  stack' = IF b.raised THEN Unwound(b)
                    ELSE Advance(stack, b.value.node, b.value.consumed)
    /\ UNCHANGED <<parsed, renderVars, configVars, registryVars, engineVars>>

\* _parse_callout gathers the body lines and calls _parse_lines on them
\* (parser.py 82-86, 207-225)
EnterCallout ==
    /\ AtLine
    /\ BlockKind(Top.lines, Top.i) = "Callout"
    /\ LET match == _callout_header_pattern(At(Top.lines, Top.i))
           r == CalloutLoop(Top.lines, Top.i + 1, << >>)
       IN  stack' =
               IF ~match.ok
               THEN Unwound(RaiseParsing("InvalidCalloutError", Top.i + 1,
                                         At(Top.lines, Top.i)))
               ELSE stack \o <<[kind |-> "_parse_callout", match |-> match,
                                consumed |-> r.i - Top.i],
                               LinesFrame(r.content_lines)>>
    /\ UNCHANGED <<parsed, renderVars, configVars, registryVars, engineVars>>

\* _parse_list is called on a list item line (parser.py 105-109, 239-250)
EnterList ==
    /\ AtLine
    /\ BlockKind(Top.lines, Top.i) = "List"
    /\ LET start_line == _normalized_line(At(Top.lines, Top.i))
           match == _list_item_pattern(start_line)
       IN  stack' =
               IF ~match.ok
               THEN Unwound(RaiseParsing("InvalidListError", Top.i + 1,
                                         start_line))
               ELSE Append(stack, ListFrame(Top.lines, Top.i, match))
    /\ UNCHANGED <<parsed, renderVars, configVars, registryVars, engineVars>>

\* the end of the loop of _parse_list without the test of the marker kind
ListEnds_any_kind(frame) ==
    IF frame.i >= Len(frame.lines) THEN TRUE
    ELSE LET normalized_line == _normalized_line(At(frame.lines, frame.i))
             item_match == _list_item_pattern(normalized_line)
         IN  IF _is_blank(normalized_line) THEN FALSE
             ELSE IF ~item_match.ok THEN TRUE
             ELSE _indent_width(item_match.indent) # frame.base_indent

\* the loop of _parse_list ends at line i of its frame: at the end of the
\* lines, or at a line that is not blank and is not an item line of the
\* list's indent and marker kind (parser.py 251-263)
ListEnds(frame) ==
    IF frame.i >= Len(frame.lines) THEN TRUE
    ELSE LET normalized_line == _normalized_line(At(frame.lines, frame.i))
             item_match == _list_item_pattern(normalized_line)
         IN  IF _is_blank(normalized_line) THEN FALSE
             ELSE IF ~item_match.ok THEN TRUE
             ELSE IF _indent_width(item_match.indent) # frame.base_indent
             THEN TRUE
             ELSE _is_ordered_marker(item_match.marker) # frame.ordered

\* a round of the loop of _parse_list is due in the top frame
InList == Len(stack) > 1 /\ Top.kind = "_parse_list"

\* _parse_list returns its List and the lines it consumed, and the calling
\* _parse_lines appends it (parser.py 106-109, 268)
ListEnd ==
    /\ InList
    /\ ListEnds(Top)
    /\ stack' = Advance(Below(1), List(Top.ordered, Top.items),
                        Top.i - Top.start_idx)
    /\ UNCHANGED <<parsed, renderVars, configVars, registryVars, engineVars>>

\* the stack once _parse_list_item has gathered the lines of the item at
\* line i of the list frame on top: the call of _parse_lines on them is in
\* progress, or, for an item without lines, the item is appended at once
\* (parser.py 264-266, 270-300)
ItemGathered(match, r) ==
    IF r.item_lines = << >>
    THEN [stack EXCEPT ![Len(stack)] =
             [@ EXCEPT !.items = Append(@, ListItem(<< >>)), !.i = r.i]]
    ELSE stack \o <<[kind |-> "_parse_list_item", consumed |-> r.i - Top.i],
                    LinesFrame(r.item_lines)>>

\* the lines of the item whose marker line is line i of the list frame on
\* top (parser.py 274-297)
ItemLines(match) ==
    ListItemLoop(Top.lines, Top.i + 1, _indent_width(match.indent),
                 match.content_start,
                 IF Strip(match.content) # << >>
                 THEN <<Strip(match.content)>> ELSE << >>)

\* a round of the loop of _parse_list that does not end it: a blank line
\* is skipped, an item line starts _parse_list_item (parser.py 251-266)
ListRound ==
    /\ InList
    /\ ~ListEnds(Top)
    /\ LET normalized_line == _normalized_line(At(Top.lines, Top.i))
           match == _list_item_pattern(normalized_line)
       IN  stack' = IF _is_blank(normalized_line)
                    THEN [stack EXCEPT ![Len(stack)].i = @ + 1]
                    ELSE ItemGathered(match, ItemLines(match))
    /\ UNCHANGED <<parsed, renderVars, configVars, registryVars, engineVars>>

\* the loop of the _parse_lines call on top is over: the call returns
AtReturn ==
    /\ Len(stack) > 1
    /\ Top.kind = "_parse_lines"
    /\ Top.i >= Len(Top.lines)

\* parse returns the Document of the nodes (parser.py 66-67)
ReturnToParse ==
    /\ AtReturn
    /\ Len(stack) = 2
    /\ stack' = <<[kind |-> "parse", source |-> stack[1].source,
                   called |-> TRUE,
                   result |-> Return(Document(Top.nodes))]>>
    /\ UNCHANGED <<parsed, renderVars, configVars, registryVars, engineVars>>

\* _parse_callout returns its Callout, and the calling _parse_lines appends
\* it (parser.py 83-86, 227-228)
ReturnToCallout ==
    /\ AtReturn
    /\ stack[Len(stack) - 1].kind = "_parse_callout"
    /\ LET call == stack[Len(stack) - 1]
       IN  stack' = Advance(Below(2),
                            Callout(call.match.type,
                                    IF call.match.title \in {None, << >>}
                                    THEN None ELSE call.match.title,
                                    Top.nodes),
                            call.consumed)
    /\ UNCHANGED <<parsed, renderVars, configVars, registryVars, engineVars>>

\* _parse_list_item returns its ListItem, and the loop of _parse_list
\* appends it (parser.py 264-266, 299-300)
ReturnToListItem ==
    /\ AtReturn
    /\ stack[Len(stack) - 1].kind = "_parse_list_item"
    /\ LET call == stack[Len(stack) - 1]
       IN  stack' = [Below(2) EXCEPT ![Len(stack) - 2] =
                        [@ EXCEPT !.items = Append(@, ListItem(Top.nodes)),
                                  !.i = @ + call.consumed]]
    /\ UNCHANGED <<parsed, renderVars, configVars, registryVars, engineVars>>

\* the lines the stepped parser is given: one or two fragments
FragItems == << <<"-", " ", "a">>, <<"-", " ", "b">> >>
FragItemsApart == << <<"-", " ", "a">>, << >>, <<"-", " ", "b">> >>
FragKinds == << <<"-", " ", "a">>, <<"1", ".", " ", "b">>, <<"2", ".", " ", "c">> >>
FragOrdered == << <<"1", ".", " ", "a">>, <<"2", ".", " ", "b">> >>
FragNested == << <<"-", " ", "a">>, <<" ", " ", "-", " ", "b">>, <<" ", " ", "-", " ", "c">>, <<"-", " ", "d">> >>
FragDeeper == << <<"-", " ", "a">>, <<" ", "-", " ", "b">> >>
FragTabbed == << <<"\t", "-", " ", "a">>, <<" ", " ", " ", " ", "-", " ", "b">>, <<" ", " ", "-", " ", "c">> >>
FragShallower == << <<" ", " ", "-", " ", "a">>, <<"-", " ", "b">> >>
FragItemRule == << <<"-", " ", "-", " ", "-">> >>
FragStarRule == << <<"*", " ", "*", " ", "*">> >>
FragRow == << <<"|", " ", "a", " ", "|">> >>
FragRagged == << <<"|", "A", "|", "B", "|">>, <<"|", "-", "|">>, <<"|", "1", "|">> >>
FragLines == << <<"p">>, <<"q">> >>
FragCalloutList == << <<">", " ", "[", "!", "t", "i", "p", "]">>, <<">", " ", "-", " ", "a">>, <<">", " ", "-", " ", "b">> >>
FragFencedItem == << <<Tick, Tick, Tick>>, <<"-", " ", "a">>, <<Tick, Tick, Tick>> >>
FragEmptyItem == << <<"-", " ">> >>
FragItemBody == << <<"-", " ", "a">>, << >>, <<" ", " ", "b">>, <<"c">> >>
FragPlus == << <<"+", " ", "a">> >>
FragQuotedCode == << <<Tick, Tick, Tick>>, <<">", " ", "x">>, <<Tick, Tick, Tick>> >>
FragIndentedCode ==
    << <<" ", " ", Tick, Tick, Tick, "p", "y">>,
       <<" ", " ", " ", " ", "y">>,
       <<" ", "z">>,
       <<" ", " ", Tick, Tick, Tick>> >>
FragOpenFence ==
    << <<Tick, Tick, Tick, "p", "y">>, <<"x">>, <<Tick, Tick, Tick, "j", "s">> >>
FragNestedCallout ==
    << <<">", " ", "[", "!", "n", "o", "t", "e", "]", " ", "T">>,
       <<">", " ", ">", " ", "[", "!", "t", "i", "p", "]">>,
       <<">", " ", ">", " ", "x">>,
       <<" ", " ", ">", "y">> >>

LineFragments ==
    {FragItems, FragItemsApart, FragKinds, FragOrdered, FragNested,
     FragDeeper, FragTabbed, FragShallower, FragItemRule, FragStarRule,
     FragRow, FragLines, FragCalloutList, FragFencedItem, FragEmptyItem,
     FragItemBody, FragPlus, FragNestedCallout, FragQuotedCode,
     FragIndentedCode, FragOpenFence, FragRagged, FragHeading, FragCode, FragCallout, FragList,
     FragImage, FragTable, FragRule, FragMath, FragParagraph, FragBlank}

LineSources ==
    {SourceOf(<<a>>) : a \in LineFragments}
        \cup {SourceOf(<<a, b>>) : a \in LineFragments, b \in LineFragments}

LinesInit ==
    /\ \E source \in LineSources : stack = <<ParseFrame(source)>>
    /\ parsed = [called |-> FALSE, source |-> << >>]
    /\ rendered = [op |-> "none"]
    /\ config = ConfigStart
    /\ _TRANSFORMS = << >>
    /\ registry = [op |-> "import"]
    /\ converters = << >>
    /\ conversion = << >>

LinesNext ==
    \/ ParseCall
    \/ SkipBlank
    \/ Block
    \/ EnterCallout
    \/ EnterList
    \/ ListRound
    \/ ListEnd
    \/ ReturnToParse
    \/ ReturnToCallout
    \/ ReturnToListItem

SpecLines == LinesInit /\ [][LinesNext]_vars

\* parse has returned
Returned == Len(stack) = 1 /\ stack[1].called

\* the stepped parser returns what parse returns
SteppedIsParse == Returned => stack[1].result = parse(stack[1].source)

-----------------------------------------------------------------------------
(* The claims on the parser's steps *)

\* the block predicates at line i, in the order of the cascade; the last
\* stands for the paragraph, which any line can open
Matches(lines, i) ==
    <<_is_blank(_normalized_line(At(lines, i))),
      _is_callout_header(At(lines, i)),
      _is_code_fence_start(_normalized_line(At(lines, i))),
      _is_math_block_start(_normalized_line(At(lines, i))),
      _is_heading(_normalized_line(At(lines, i))),
      _is_list_item(_normalized_line(At(lines, i))),
      _is_image_line(_normalized_line(At(lines, i))),
      _is_table_start(lines, i),
      _is_horizontal_rule(_normalized_line(At(lines, i))),
      TRUE>>

\* what each predicate yields
Yields ==
    <<"blank", "Callout", "CodeBlock", "MathBlock", "Section", "List",
      "Image", "Table", "HorizontalRule", "Paragraph">>

\* the first predicate that matches at line i
FirstMatch(lines, i) ==
    CHOOSE k \in DOMAIN Yields :
        /\ Matches(lines, i)[k]
        /\ \A j \in 1..(k - 1) : ~Matches(lines, i)[j]

\* the frames a step keeps: those of a _parse_lines call that is on the
\* stack before and after the step
KeptLines ==
    {d \in DOMAIN stack \cap DOMAIN stack' :
        /\ stack[d].kind = "_parse_lines"
        /\ stack'[d].kind = "_parse_lines"}

\* what C18 asks of a step that moves the index of a _parse_lines call from
\* line i: a blank line emits nothing and is passed; any other line emits
\* one node, of the kind of the first predicate that matches at i; and a
\* Paragraph holds the line i and the lines after it up to the first that
\* is blank or matches another predicate
Classified(before, after) ==
    LET lines == before.lines
        i == before.i
        kind == Yields[FirstMatch(lines, i)]
    IN  IF kind = "blank"
        THEN after.nodes = before.nodes /\ after.i = i + 1
        ELSE /\ Len(after.nodes) = Len(before.nodes) + 1
             /\ SubSeq(after.nodes, 1, Len(before.nodes)) = before.nodes
             /\ after.nodes[Len(after.nodes)].type = kind
             /\ kind = "Paragraph" =>
                    /\ \A j \in (i + 1)..(after.i - 1) :
                           Yields[FirstMatch(lines, j)] = "Paragraph"
                    /\ \/ after.i = Len(lines)
                       \/ Yields[FirstMatch(lines, after.i)] # "Paragraph"
                    /\ after.nodes[Len(after.nodes)].content =
                           Join([j \in 1..(after.i - i) |->
                                    _normalized_line(At(lines, i + j - 1))],
                                <<NL>>)

\* C18: block classification is an ordered first-match cascade.  At every
\* line position of every _parse_lines call the node emitted is of the kind
\* of the first predicate that matches, in the order blank, callout header,
\* code fence, math block, heading, list item, image, table start,
\* horizontal rule, paragraph; a paragraph absorbs a following line only if
\* the line is not blank and matches none of the other predicates.
C18_Cascade ==
    [][\A d \in KeptLines :
           stack'[d] # stack[d] => Classified(stack[d], stack'[d])]_vars

\* the line "- - -", an item line and a horizontal rule at once, has been
\* parsed as a List
C18_Witness ==
    /\ Returned
    /\ stack[1].source = <<"-", " ", "-", " ", "-">>
    /\ stack[1].result.value.children[1].type = "List"

\* the size of a list of lines: its lines and their characters
RECURSIVE Size(_)
Size(lines) ==
    IF lines = << >> THEN 0 ELSE 1 + Len(Head(lines)) + Size(Tail(lines))

\* what C19 asks of a step: a _parse_lines or _parse_list call whose frame
\* the step changes moves its index forward, and not past its lines; and a
\* _parse_lines call the step makes for a callout body or an item's content
\* is given lines smaller than the lines the callout or item consumes
Consumes ==
    /\ \A d \in DOMAIN stack \cap DOMAIN stack' :
           (/\ stack[d].kind \in {"_parse_lines", "_parse_list"}
            /\ stack'[d].kind = stack[d].kind
            /\ stack'[d] # stack[d]) =>
               /\ stack'[d].i > stack[d].i
               /\ stack'[d].i <= Len(stack[d].lines)
    /\ (Len(stack) > 1 /\ Len(stack') = Len(stack) + 2) =>
           LET call == stack'[Len(stack) + 1]
               made == stack'[Len(stack) + 2]
           IN  /\ call.consumed >= 1
               /\ Top.i + call.consumed <= Len(Top.lines)
               /\ Size(made.lines)
                      < Size(SubSeq(Top.lines, Top.i + 1,
                                    Top.i + call.consumed))

\* the lines of a _parse_lines or _parse_list frame from index i on
Rest(frame, i) == SubSeq(frame.lines, i + 1, Len(frame.lines))

\* the index the frame at depth d stands at once the calls above it have
\* returned: a callout or an item in progress has its lines consumed, and a
\* list in progress the lines up to its own index
RECURSIVE Ahead(_, _)
Ahead(frames, d) ==
    IF d = Len(frames) THEN frames[d].i
    ELSE IF frames[d + 1].kind = "_parse_list" THEN Ahead(frames, d + 1)
    ELSE frames[d].i + frames[d + 1].consumed

\* a list frame that has gathered no item yet
Fresh(frames, d) == d = Len(frames) /\ frames[d].i = frames[d].start_idx

\* the variant of the frame at depth d
Weight(frames, d) ==
    CASE frames[d].kind = "parse" ->
             IF frames[d].called THEN 0
             ELSE 4 * (Size(SplitLines(frames[d].source)) + 1)
                    * (Size(SplitLines(frames[d].source)) + 1) + 3
      [] frames[d].kind = "_parse_lines" ->
             4 * (Size(Rest(frames[d], Ahead(frames, d))) + 1)
               * (Size(Rest(frames[d], Ahead(frames, d))) + 1)
             + (IF d < Len(frames) /\ frames[d + 1].kind = "_parse_list"
                THEN 0 ELSE 2)
      [] frames[d].kind = "_parse_list" ->
             IF Fresh(frames, d) THEN 1 ELSE 4
      [] OTHER -> 0

\* the variant of a stack: a natural number
RECURSIVE Variant(_, _)
Variant(frames, d) ==
    IF d = 0 THEN 0 ELSE Weight(frames, d) + Variant(frames, d - 1)

\* a step is due in every state parse has not returned from: the call of
\* _parse_lines, a round of the loop of the frame on top, or its return to
\* the frame that made the call
Due ==
    \/ Returned
    \/ Len(stack) = 1 /\ ~stack[1].called
    \/ Len(stack) > 1 /\ Top.kind = "_parse_list"
    \/ /\ Len(stack) > 1 /\ Top.kind = "_parse_lines"
       /\ \/ Top.i < Len(Top.lines)
          \/ Len(stack) = 2
          \/ stack[Len(stack) - 1].kind
                 \in {"_parse_callout", "_parse_list_item"}

\* C19: parse terminates.  Every round of _parse_lines and every block
\* sub-parser consumes at least one line and leaves the index within the
\* lines, and every recursive _parse_lines call is made on lines smaller
\* than those it was built from; so every step lowers the variant, a
\* natural number, and a step is due until parse has returned.
C19_Terminates ==
    /\ []Due
    /\ [][Consumes /\ Variant(stack', Len(stack')) < Variant(stack, Len(stack))]_vars

\* parse has returned from a source whose items and callout body made
\* recursive calls
C19_Witness ==
    /\ Returned
    /\ stack[1].source = SourceOf(<<FragNested, FragCalloutList>>)
    /\ ~stack[1].result.raised

\* the columns of a line's indent: a space is one, a tab is four
RECURSIVE Columns(_)
Columns(line) ==
    IF line = << >> \/ Head(line) \notin {" ", "\t"} THEN 0
    ELSE (IF Head(line) = "\t" THEN 4 ELSE 1) + Columns(Tail(line))

\* line j is an item line, and its marker is a number and a dot
IsItem(lines, j) == _list_item_pattern(_normalized_line(At(lines, j))).ok
IsNumbered(lines, j) ==
    _list_item_pattern(_normalized_line(At(lines, j))).marker[1] \in Digits

\* what C20 asks of the List parsed from the lines first..(next - 1): its
\* items are the item lines of the first line's indent, all of the first
\* line's marker kind; any other line of the List is blank or indented
\* deeper; and the line after the List, if any, is not blank and is not an
\* item line of that indent and kind
Homogeneous(lines, first, next, node) ==
    LET indent == Columns(_normalized_line(At(lines, first)))
        markers == {j \in first..(next - 1) :
                       /\ ~_is_blank(_normalized_line(At(lines, j)))
                       /\ IsItem(lines, j)
                       /\ Columns(_normalized_line(At(lines, j))) = indent}
    IN  /\ node.type = "List"
        /\ node.ordered = IsNumbered(lines, first)
        /\ Len(node.items) = Cardinality(markers)
        /\ \A j \in markers : IsNumbered(lines, j) = node.ordered
        /\ \A j \in first..(next - 1) :
               \/ j \in markers
               \/ _is_blank(_normalized_line(At(lines, j)))
               \/ Columns(_normalized_line(At(lines, j))) > indent
        /\ next > first
        /\ \/ next = Len(lines)
           \/ /\ ~_is_blank(_normalized_line(At(lines, next)))
              /\ ~(/\ IsItem(lines, next)
                   /\ Columns(_normalized_line(At(lines, next))) = indent
                   /\ IsNumbered(lines, next) = node.ordered)

\* C20: every List is homogeneous.  Its items were introduced by marker
\* lines of one indent width (a tab counts 4 columns) and one marker kind,
\* those of its first item; an item line of that indent and kind, blank
\* lines before it or not, extends the list, and any other line that is
\* not deeper ends it and is left to the enclosing parse.
C20_Homogeneous ==
    [][(Len(stack) > 1 /\ Top.kind = "_parse_list"
            /\ Len(stack') = Len(stack) - 1) =>
           Homogeneous(Top.lines, stack[Len(stack) - 1].i,
                       stack'[Len(stack')].i,
                       stack'[Len(stack')].nodes[
                           Len(stack'[Len(stack')].nodes)])]_vars

\* the lines "- a", "1. b", "2. c" have been parsed as a bullet list of one
\* item and a numbered list of two
C20_Witness ==
    /\ Returned
    /\ stack[1].source = SourceOf(<<FragKinds>>)
    /\ Len(stack[1].result.value.children) = 2
    /\ ~stack[1].result.value.children[1].ordered
    /\ Len(stack[1].result.value.children[1].items) = 1
    /\ stack[1].result.value.children[2].ordered
    /\ Len(stack[1].result.value.children[2].items) = 2

\* C21: continuation lines of a list item are dedented without loss.  Each
\* line _parse_list_item gathers after the marker line, a blank line apart,
\* is passed to the recursive parse as the line without some of its leading
\* whitespace, at most up to the item's content column: no other character
\* of the line is dropped.
C21_Dedent ==
    [][(Len(stack) > 1 /\ Top.kind = "_parse_list"
            /\ Len(stack') = Len(stack) + 2) =>
           LET match == _list_item_pattern(
                            _normalized_line(At(Top.lines, Top.i)))
               first == IF Strip(match.content) # << >> THEN 1 ELSE 0
               made == stack'[Len(stack')].lines
           IN  \A k \in 1..(stack'[Len(stack) + 1].consumed - 1) :
                   LET line == _normalized_line(At(Top.lines, Top.i + k))
                   IN  ~_is_blank(line) =>
                           \E n \in 0..match.content_start :
                               /\ n <= CountLeading(line, Whitespace)
                               /\ made[first + k] = Drop(line, n)]_vars

\* a line that starts with a blockquote marker, after blanks or none
Quoted(line) ==
    LStripSet(line, Blanks) # << >> /\ Head(LStripSet(line, Blanks)) = ">"

\* a quoted line without one blockquote prefix: the blanks, the marker and
\* one space after it
Unquoted(line) ==
    LET after == Tail(LStripSet(line, Blanks))
    IN  IF after # << >> /\ Head(after) = " " THEN Tail(after) ELSE after

\* what C22 asks of the call _parse_callout makes at the header line i: the
\* lines it consumes after the header are quoted lines that are not callout
\* headers, the line after them, if any, is not one of these, and the
\* recursive parse is given them without one blockquote prefix
CalloutBody(lines, i, consumed, made) ==
    /\ consumed >= 1
    /\ \A k \in 1..(consumed - 1) :
           /\ Quoted(At(lines, i + k))
           /\ ~_is_callout_header(At(lines, i + k))
    /\ \/ i + consumed = Len(lines)
       \/ ~Quoted(At(lines, i + consumed))
       \/ _is_callout_header(At(lines, i + consumed))
    /\ made = [k \in 1..(consumed - 1) |-> Unquoted(At(lines, i + k))]

\* what C22 asks of the return of _parse_callout to the _parse_lines frame
\* before: the Callout appended holds the nodes parsed from the body as its
\* children, and the index moves past the header and the body, no further
CalloutMade(before, call, body, after) ==
    /\ after.i = before.i + call.consumed
    /\ after.nodes[Len(after.nodes)].type = "Callout"
    /\ after.nodes[Len(after.nodes)].children = body.nodes

\* C22: a callout is its header line and the longest run of lines right
\* after it that start with a blockquote marker and are not callout headers;
\* these lines, one blockquote prefix stripped, are parsed recursively as
\* the callout's children, and the first line that is not quoted, or the
\* next callout header, is left to the enclosing parse.
C22_CalloutBody ==
    [][/\ (Len(stack) > 1 /\ Len(stack') = Len(stack) + 2
              /\ stack'[Len(stack) + 1].kind = "_parse_callout") =>
              CalloutBody(Top.lines, Top.i,
                          stack'[Len(stack) + 1].consumed,
                          stack'[Len(stack')].lines)
       /\ (Len(stack) > 2 /\ Len(stack') = Len(stack) - 2
              /\ stack[Len(stack) - 1].kind = "_parse_callout") =>
              CalloutMade(stack[Len(stack) - 2], stack[Len(stack) - 1],
                          Top, stack'[Len(stack')])]_vars

\* the callout whose body holds "> > [!tip]" and "> > x" has been parsed:
\* its first child is the Callout tip, whose child is the Paragraph x
C22_Witness ==
    /\ Returned
    /\ stack[1].source = SourceOf(<<FragNestedCallout>>)
    /\ stack[1].result.value.children[1].children[1].type = "Callout"
    /\ stack[1].result.value.children[1].children[1].children
           = <<Paragraph(<<"x">>)>>

\* the blanks a line starts with
Indent(line) == Take(line, CountLeading(line, Blanks))

\* a fence line without a language tag: blanks, three backticks, whitespace
ClosingFence(line) ==
    /\ StartsWith(LStripSet(line, Blanks), <<Tick, Tick, Tick>>)
    /\ AllIn(Drop(LStripSet(line, Blanks), 3), Whitespace)

\* the index of the first closing fence after line i, or the number of the
\* lines when there is none
RECURSIVE FirstClosing(_, _)
FirstClosing(lines, i) ==
    IF i + 1 >= Len(lines) THEN Len(lines)
    ELSE IF ClosingFence(At(lines, i + 1)) THEN i + 1
    ELSE FirstClosing(lines, i + 1)

\* a line without the indent of the opening fence, when it starts with it
Dedented(line, indent) ==
    IF indent # << >> /\ StartsWith(line, indent)
    THEN Drop(line, Len(indent)) ELSE line

\* a step of a _parse_lines frame that parses a fenced code block
CodeBlockStep ==
    /\ AtLine
    /\ Yields[FirstMatch(Top.lines, Top.i)] = "CodeBlock"

\* C23: fenced code content is verbatim up to the fence's indent.  The
\* content of a CodeBlock is the source lines strictly between the opening
\* fence and the first closing fence after it, in order, each without the
\* opening fence's indent and with no other change: no other prefix of a
\* line, such as "> ", is removed.
C23_Verbatim ==
    [][CodeBlockStep =>
           /\ Len(stack') = Len(stack)
           /\ Top'.nodes[Len(Top'.nodes)].type = "CodeBlock"
           /\ Top'.nodes[Len(Top'.nodes)].content =
                  Join([k \in 1..(FirstClosing(Top.lines, Top.i) - Top.i - 1) |->
                           Dedented(At(Top.lines, Top.i + k),
                                    Indent(At(Top.lines, Top.i)))],
                       <<NL>>)]_vars
\* a line that closes a code block: a fence line without a language tag,
\* read as the blocks of a line list are, with or without one blockquote
\* marker before it
Closes(line) ==
    \/ ClosingFence(line)
    \/ Quoted(line) /\ ClosingFence(Unquoted(line))

\* a fence line that carries a language tag
TaggedFence(line) ==
    LET tag == Strip(Drop(LStripSet(line, Blanks), 3))
    IN  /\ StartsWith(LStripSet(line, Blanks), <<Tick, Tick, Tick>>)
        /\ tag # << >>
        /\ \A k \in DOMAIN tag : tag[k] \notin Whitespace \cup {Tick}

\* the code block opened at the line of the top frame is never closed
OpenBlockStep ==
    /\ CodeBlockStep
    /\ \A k \in (Top.i + 2)..Len(Top.lines) : ~Closes(Top.lines[k])

\* C30: an opening fence with no closing fence after it is not an error.
\* The step returns to the same _parse_lines frame with one more node, a
\* CodeBlock, and with every remaining line of the line list consumed, so
\* nothing after the opening fence is parsed as another block; the content
\* has one line for each remaining line, and a remaining fence line with a
\* language tag is one of them, without the opening fence's indent.
C30_OpenFence ==
    [][OpenBlockStep =>
           /\ Len(stack') = Len(stack)
           /\ Top'.kind = "_parse_lines"
           /\ Top'.i = Len(Top.lines)
           /\ Len(Top'.nodes) = Len(Top.nodes) + 1
           /\ Top'.nodes[Len(Top'.nodes)].type = "CodeBlock"
           /\ LET content == Top'.nodes[Len(Top'.nodes)].content
                  n == Len(Top.lines) - Top.i - 1
              IN  /\ IF n = 0 THEN content = << >>
                     ELSE Len(Split(content, NL)) = n
                  /\ \A k \in 1..n :
                         TaggedFence(At(Top.lines, Top.i + k)) =>
                             Split(content, NL)[k] =
                                 Dedented(At(Top.lines, Top.i + k),
                                          Indent(At(Top.lines, Top.i)))]_vars

\* an open block with a tagged fence line inside has been parsed
C30_Witness ==
    /\ Returned
    /\ stack[1].source = SourceOf(<<FragOpenFence, FragRule>>)
    /\ Len(stack[1].result.value.children) = 1
    /\ stack[1].result.value.children[1].type = "CodeBlock"
    /\ stack[1].result.value.children[1].language = <<"p", "y">>
    /\ stack[1].result.value.children[1].content = <<"x", NL, Tick, Tick, Tick, "j", "s", NL, "-", "-", "-">>
\* a step of a _parse_lines frame that parses a table
TableStep ==
    /\ AtLine
    /\ Yields[FirstMatch(Top.lines, Top.i)] = "Table"

\* C24: every Table is rectangular.  The header and every body row of the
\* Table a step appends have as many cells as the separator row has column
\* alignments.
C24_Rectangular ==
    [][TableStep =>
           LET table == Top'.nodes[Len(Top'.nodes)]
           IN  /\ table.type = "Table"
               /\ Len(table.header) = Len(table.alignments)
               /\ \A r \in DOMAIN table.rows :
                      Len(table.rows[r]) = Len(table.alignments)]_vars
\* the contents of the inline math spans of a text: what stands between
\* "\(" and the next "\)", and between two single dollars of one line
MathContents(text) ==
    {SubSeq(text, a, b) : a \in DOMAIN text, b \in DOMAIN text} \ {<< >>}

MathSpans(text) ==
    {c \in MathContents(text) :
        \/ /\ Contains(text, <<"\\", "(">> \o c \o <<"\\", ")">>)
           /\ ~Contains(c, <<"\\", ")">>)
        \/ /\ Contains(text, <<"$">> \o c \o <<"$">>)
           /\ \A k \in DOMAIN c : c[k] \notin {"$", NL}}

\* C25: inline math protection is lossless.  convert returns for a text
\* with inline math spans; the content of each span stands in the output
\* unchanged, and no placeholder token __LORETEX_MATH_n__ is left in it,
\* also when one span contains another.
C25_MathLossless ==
    (rendered.op = "convert" /\ rendered.called
         /\ MathSpans(rendered.text) # {}) =>
        /\ ~rendered.outcome.raised
        /\ \A c \in MathSpans(rendered.text) :
               \/ Contains(rendered.outcome.value, c)
               \/ \E d \in MathSpans(rendered.text) :
                      Len(d) < Len(c) /\ Contains(c, d)
        /\ ~Contains(rendered.outcome.value, <<"_", "_", "L", "O", "R", "E", "T", "E", "X", "_", "M", "A", "T", "H", "_">>)
\* the keys from_dict reads in its argument
ConfigSections ==
    {"headings", "inline", "links", "citations", "footnotes", "images",
     "lists", "list", "code_blocks", "code-blocks", "callouts", "tables",
     "parsing", "math", "labels", "wiki_links"}

\* a from_dict argument that sets no configuration field: None, the empty
\* mapping, or a mapping of empty sections and unrecognised keys
SetsNothing(data) ==
    \/ data = NoneV
    \/ /\ data.t = "map"
       /\ \A key \in DOMAIN data.v :
              key \in ConfigSections => data.v[key] = EmptyMap

\* C29: from_dict(m) is the default configuration, field by field and link
\* templates included, for every m that sets no configuration field.
C29_FromDictDefault ==
    (config.op = "from_dict" /\ SetsNothing(config.arg)) =>
        config.result = Return(ConversionConfig)
\* a converter built anew with the configuration and the transforms of self
BuiltAnew(self) ==
    MarkdownToLaTeXConverter(self.config, self.transforms, << >>,
                             _TRANSFORMS).value

\* C27: per-call overrides never leak.  No step changes the configuration,
\* the generator or the transform list a converter holds, whatever the
\* overrides and the source of a call and whether it raises; and a call
\* without overrides, after any calls on its converter, has the outcome of
\* the same call on a converter built anew.
C27_NoLeak ==
    [][/\ \A c \in DOMAIN converters :
              /\ c \in DOMAIN converters'
              /\ converters'[c].config = converters[c].config
              /\ converters'[c].generator = converters[c].generator
              /\ converters'[c].transforms = converters[c].transforms
       /\ (/\ conversion' # conversion
           /\ conversion'.called
           /\ CallOverrides[conversion'.overrides] = NoneV) =>
              SameOutcome(
                  conversion'.stages.result,
                  Stages(BuiltAnew(converters[conversion'.converter]),
                         conversion'.source, NoneV).result)]_vars

\* a call without overrides that returned a string, made on a converter
\* right after a call with overrides
C27_Witness ==
    /\ conversion.called
    /\ CallOverrides[conversion.overrides] = NoneV
    /\ conversion.before
    /\ ~conversion.stages.result.raised
\* the transforms registered under the names of a list, in its order; the
\* names are all registered
Named_transforms(registered, names) ==
    [k \in DOMAIN names |-> registered[names[k]]]

\* C28: the transform pipeline of a converter is fixed at construction.  A
\* converter is built only when every name of transform_names is
\* registered; its pipeline is then the transforms passed explicitly, in
\* order, followed by the transforms registered under the names at that
\* time, in order.  No later step changes it, a register_transform with
\* overwrite=True included, and a conversion applies exactly that pipeline
\* to the parser's document.
C28_FixedPipeline ==
    [][/\ \A c \in DOMAIN converters :
              c \in DOMAIN converters'
                  /\ converters'[c].transforms = converters[c].transforms
       /\ Len(converters') > Len(converters) =>
              LET self == converters'[Len(converters')]
              IN  /\ \A k \in DOMAIN self.built.transform_names :
                         Registered(_TRANSFORMS, self.built.transform_names[k])
                  /\ self.transforms =
                         self.built.transforms
                             \o Named_transforms(_TRANSFORMS,
                                                 self.built.transform_names)
       /\ (/\ conversion' # conversion
           /\ conversion'.called
           /\ conversion'.stages.reached = 5) =>
              conversion'.stages.transformed =
                  Composition(conversion'.stages.ast,
                              converters[conversion'.converter].transforms)]_vars

\* a converter built with an explicit transform and a name has converted a
\* source after the name was registered again with another transform
C28_Witness ==
    /\ conversion.called
    /\ conversion.stages.reached = 5
    /\ LET self == converters[conversion.converter]
       IN  /\ self.built.transforms # << >>
           /\ self.built.transform_names # << >>
           /\ self.transforms # _transforms_resolved_late(self)
           /\ conversion.stages.transformed # conversion.stages.ast
-----------------------------------------------------------------------------
(* Two threads in register_transform.  The function holds no lock           *)
(* (registry.py 14-18): a thread may be suspended between the test of the   *)
(* first statement and the assignment of the last one.                      *)

Threads == {1, 2}

\* the calls of the threads, the statement each is at, the outcomes of the
\* calls that are over, the registry before the calls and the threads in the
\* order of their assignments
ThreadsInit ==
    /\ _TRANSFORMS \in {<< >>, Store(<< >>, <<"b">>, "reverse")}
    /\ \E calls \in [Threads -> [name : Names, transform : Transforms,
                                 overwrite : BOOLEAN]] :
           registry = [op |-> "threads", calls |-> calls,
                       pc |-> [t \in Threads |-> "test"],
                       result |-> << >>, start |-> _TRANSFORMS,
                       inserted |-> << >>]
    /\ parsed = [called |-> FALSE, source |-> << >>]
    /\ config = ConfigStart
    /\ rendered = [op |-> "none"]
    /\ stack = << >>
    /\ converters = << >>
    /\ conversion = [called |-> FALSE]

\* if name in _TRANSFORMS and not overwrite: raise KeyError
\* (registry.py 16-17)
ThreadTest(t) ==
    /\ registry.pc[t] = "test"
    /\ registry' =
           IF /\ Registered(_TRANSFORMS, registry.calls[t].name)
              /\ ~registry.calls[t].overwrite
           THEN [registry EXCEPT !.pc[t] = "done",
                                 !.result = Store(@, t, Raise("KeyError"))]
           ELSE [registry EXCEPT !.pc[t] = "assign"]
    /\ UNCHANGED <<_TRANSFORMS, renderVars, parserVars, configVars, engineVars>>

\* the assignment made under a lock taken before the test: the name is
\* tested again
ThreadAssign_locked(t) ==
    /\ registry.pc[t] = "assign"
    /\ LET done == register_transform(_TRANSFORMS, registry.calls[t].name,
                                      registry.calls[t].transform,
                                      registry.calls[t].overwrite)
       IN  /\ _TRANSFORMS' = done.transforms
           /\ registry' =
                  [registry EXCEPT
                      !.pc[t] = "done",
                      !.result = Store(@, t, IF done.raised
                                             THEN Raise(done.kind)
                                             ELSE Return(None)),
                      !.inserted = IF done.raised THEN @ ELSE Append(@, t)]
    /\ UNCHANGED <<renderVars, parserVars, configVars, engineVars>>

\* _TRANSFORMS[name] = transform  (registry.py 18), and the return
ThreadAssign(t) ==
    /\ registry.pc[t] = "assign"
    /\ _TRANSFORMS' = Store(_TRANSFORMS, registry.calls[t].name,
                            registry.calls[t].transform)
    /\ registry' = [registry EXCEPT !.pc[t] = "done",
                                    !.result = Store(@, t, Return(None)),
                                    !.inserted = Append(@, t)]
    /\ UNCHANGED <<renderVars, parserVars, configVars, engineVars>>

ThreadsNext ==
    \/ \E t \in Threads : ThreadTest(t)
    \/ \E t \in Threads : ThreadAssign(t)

SpecThreads == ThreadsInit /\ [][ThreadsNext]_vars

\* C26: register_transform is not atomic.  The test is one step, which
\* raises KeyError exactly when the name is registered at that moment and
\* overwrite is false, and changes nothing; the assignment is a later step,
\* which tests nothing: it stores the thread's transform under the name,
\* whatever was registered since the test, and the call returns.
C26_NotAtomic ==
    [][\A t \in Threads :
           /\ (registry.pc[t] = "test" /\ registry'.pc[t] # "test") =>
                  /\ _TRANSFORMS' = _TRANSFORMS
                  /\ registry'.pc[t] = "done" <=>
                         /\ Registered(_TRANSFORMS, registry.calls[t].name)
                         /\ ~registry.calls[t].overwrite
                  /\ registry'.pc[t] = "done" =>
                         registry'.result[t] = Raise("KeyError")
           /\ (registry.pc[t] = "assign" /\ registry'.pc[t] # "assign") =>
                  /\ registry'.pc[t] = "done"
                  /\ registry'.result[t] = Return(None)
                  /\ _TRANSFORMS'[registry.calls[t].name] =
                         registry.calls[t].transform]_vars

\* two threads have registered the same name, not registered before, with
\* overwrite false and different transforms; both calls have returned
\* without KeyError, and the registry holds the transform of the second
\* assignment only
C26_Witness ==
    /\ \A t \in Threads :
           /\ registry.pc[t] = "done"
           /\ ~registry.calls[t].overwrite
           /\ ~Registered(registry.start, registry.calls[t].name)
           /\ registry.result[t] = Return(None)
    /\ registry.calls[1].name = registry.calls[2].name
    /\ registry.calls[1].transform # registry.calls[2].transform
    /\ Len(registry.inserted) = 2
    /\ _TRANSFORMS[registry.calls[1].name] =
           registry.calls[registry.inserted[2]].transform
====
